---- MODULE Spec2Model ----
(***************************************************************************)
(* A model of the voice-review front end: the tool-call dispatcher and the *)
(* silence monitor of the useVapi hook (src/Frontend/find_review.cjs) and  *)
(* the session cache, reconciliation engine and submission queue of        *)
(* src/Frontend/src/services/okrService.ts.                                *)
(*                                                                         *)
(* JavaScript runs one synchronous segment at a time.  Every action below  *)
(* is one such segment: an event handler, a timer callback, or the code of *)
(* an async function between two awaits.  Continuations that are ready     *)
(* wait in the microtask queue microQ and run before the next event.       *)
(***************************************************************************)
EXTENDS Integers, Sequences, FiniteSets, TLC

\* ------------------------------------------------------------------------
\* Bounds of the model
\* ------------------------------------------------------------------------
MaxBatches == 2     \* tool-calls messages delivered in one run
MaxLen == 2         \* tool calls in one message
MaxUi == 2          \* cache operations started by the views in one run
MaxClock == 3       \* clock ticks after the start of the run
MaxSpeaker == 2     \* speaker channel ids 0..MaxSpeaker

\* ------------------------------------------------------------------------
\* Program constants
\* ------------------------------------------------------------------------
UNDEF == -1                 \* a numeric field that is undefined
FreshWindow == 3            \* the 30000 ms freshness window, in ticks of 10 s
StartClock == 4             \* Date.now() at load: later than one window after 0
TerminalStage == 3          \* the silence stage that ends the escalation

Min(a, b) == IF a < b THEN a ELSE b

RECURSIVE SumSeq(_)
SumSeq(s) == IF s = <<>> THEN 0 ELSE Head(s) + SumSeq(Tail(s))

RECURSIVE ProdSeq(_)
ProdSeq(s) == IF s = <<>> THEN 1 ELSE Head(s) * ProdSeq(Tail(s))

RECURSIVE FlatSeq(_)
FlatSeq(ss) == IF ss = <<>> THEN <<>> ELSE Head(ss) \o FlatSeq(Tail(ss))

\* The element of a one-element set.  The({ e : x \in {v} }) is e with x
\* bound to the value of v, which is computed once.
The(S) == CHOOSE x \in S : TRUE

\* Array.prototype.find / findIndex: the first index that satisfies P, 0 if none.
FindIndex(arr, P(_)) ==
    The({ IF \E i \in 1..Len(s) : P(s[i])
          THEN CHOOSE i \in 1..Len(s) : P(s[i]) /\ \A j \in 1..(i - 1) : ~P(s[j])
          ELSE 0 : s \in {arr} })

\* Math.round of the rational n / d (d > 0): the nearest integer, halves up.
RoundDiv(n, d) == (2 * n + d) \div (2 * d)

\* ------------------------------------------------------------------------
\* Strings.  TLA+ has no character operations, so the string functions of
\* the source are given by their values on the strings the model uses.
\* ------------------------------------------------------------------------
competencyOrder ==
    <<"Ownership & Accountability", "Professionalism", "Customer Focus",
      "Leadership", "Collaboration">>

\* (s || "").toLowerCase().trim().replace(/&/g, 'and').replace(/\s+/g, ' ')
normalizeString(s) ==
    CASE s = "Ownership & Accountability" -> "ownership and accountability"
      [] s = "Professionalism" -> "professionalism"
      [] s = "Customer Focus" -> "customer focus"
      [] s = "Leadership" -> "leadership"
      [] s = " LEADERSHIP " -> "leadership"
      [] s = "Collaboration" -> "collaboration"
      [] s = "Teamwork" -> "teamwork"
      [] s = "Ravi K" -> "ravi k"
      [] s = "Ravi" -> "ravi"
      [] s = "Asha" -> "asha"
      [] s = "Meera" -> "meera"
      [] s = "Increase Revenue" -> "increase revenue"
      [] s = "Expand Customer Success Team" -> "expand customer success team"
      [] s = "Increase Sales by 30% compared to last year"
           -> "increase sales by 30% compared to last year"
      [] s = "Hire 10 new team members" -> "hire 10 new team members"
      [] s = "Customer" -> "customer"
      [] s = "Innovation" -> "innovation"
      [] s = "Open 4 offices" -> "open 4 offices"
      [] s = "Retain Customers" -> "retain customers"
      [] s = "Renew contracts" -> "renew contracts"
      [] s = "Visit clients" -> "visit clients"
      [] OTHER -> s

\* a.includes(b) on normalised strings
StrIncludes(a, b) ==
    \/ b = ""
    \/ a = b
    \/ <<a, b>> \in {<<"ravi k", "ravi">>,
                     <<"customer focus", "customer">>,
                     <<"leadership skills", "leadership">>}

\* s.replace(/\s/g, '') on normalised strings
StripSpaces(s) ==
    CASE s = "ownership and accountability" -> "ownershipandaccountability"
      [] s = "customer focus" -> "customerfocus"
      [] s = "customer  focus" -> "customerfocus"
      [] s = "ravi k" -> "ravik"
      [] OTHER -> s

\* String(x).trim()
Trim(s) ==
    CASE s = " done " -> "done"
      [] OTHER -> s

\* x.trim().toLowerCase() on identifiers and titles
LowerTrim(s) ==
    CASE s = "R1" -> "r1"
      [] s = "R2" -> "r2"
      [] s = " r1 " -> "r1"
      [] OTHER -> normalizeString(s)

\* ------------------------------------------------------------------------
\* Data: source objectives, review records, review forms, update payloads
\* ------------------------------------------------------------------------
JsOr(a, b) == IF a # "" THEN a ELSE b      \* a || b on strings ("" is falsy)

MOCK_OKRS ==
    << [_id |-> "o1", objective |-> "Increase Revenue", weight |-> 50,
        progressStatus |-> 0,
        children |-> << [_id |-> "k1",
                         keyResultName |-> "Increase Sales by 30% compared to last year",
                         target |-> 30, actual |-> 0] >>],
       [_id |-> "o2", objective |-> "Expand Customer Success Team", weight |-> 50,
        progressStatus |-> 0,
        children |-> << [_id |-> "k2", keyResultName |-> "Hire 10 new team members",
                         target |-> 10, actual |-> 0] >>] >>

\* The objectives list the OKR endpoint answers with.
BackendOkrs ==
    << [_id |-> "o1", objective |-> "Increase Revenue", weight |-> 100,
        progressStatus |-> 0,
        children |-> << [_id |-> "k1",
                         keyResultName |-> "Hire 10 new team members",
                         target |-> 10, actual |-> 0] >>] >>

EmptyComments == [cm1 |-> "", cm2 |-> "", cm3 |-> ""]

NewReview(id, name, empId, created) ==
    [_id |-> id, employeeFullName |-> name, employeeId |-> empId,
     createdAt |-> created, goals |-> <<>>, competencies |-> <<>>,
     overallComments |-> EmptyComments, overalComments |-> EmptyComments,
     cm1 |-> "", accomplishments |-> "", keyAccomplishments |-> "",
     cm2 |-> "", plan |-> "", nextQuarterPlan |-> "",
     cm3 |-> "", managerOverallComments |-> "",
     employeesRating |-> 0, managersRating |-> 0, overallRating |-> 0,
     totalAchievement |-> 0]

\* No record: the operands of the engine before any call of it.
NoRecord == NewReview("", "", "", 0)

\* A review form: the response object of the review endpoint.  shape is
\* the place the records sit in (data.review, or data as an array); "null"
\* is the absent form.
NoForm == [shape |-> "null", reviews |-> <<>>]

MOCK_REVIEW_FORM ==
    [shape |-> "review",
     reviews |-> << NewReview("sim-review-123", "Ravi K", "sim-emp-1", 0) >>]

BackendForm ==
    [shape |-> "review", reviews |-> << NewReview("r1", "Ravi K", "e1", 1) >>]

\* Forms that hold several records, as an array under data.  The third
\* holds its most recently created record in the middle.
ArrayForms ==
    LET R1 == NewReview("r1", "Ravi K", "e1", 1)
        R2 == NewReview("r2", "Asha", "e2", 2)
        R3 == NewReview("r3", "Ravi K", "e1", 3)
    IN  { [shape |-> "array", reviews |-> rs] :
          rs \in { <<R1, R2>>, <<R2, R1>>, <<R1, R3, R2>> } }

NoPayload ==
    [id |-> "", employeeFullName |-> "", employeeId |-> "",
     cm1 |-> "", accomplishments |-> "", keyAccomplishments |-> "",
     cm2 |-> "", plan |-> "", nextQuarterPlan |-> "",
     cm3 |-> "", managerOverallComments |-> "",
     objectiveReviews |-> <<>>, keyResultReviews |-> <<>>,
     competencyReviews |-> <<>>]

ObjReview(id, name, empRating, mgrRating) ==
    [id |-> id, objectiveName |-> name, employeeRating |-> empRating,
     managerRating |-> mgrRating, employeeFeedback |-> "", managerFeedback |-> ""]

KrReview(id, name, actual, empRating, mgrRating) ==
    [id |-> id, keyResultName |-> name, actual |-> actual,
     employeeRating |-> empRating, managerRating |-> mgrRating,
     employeeFeedback |-> "", managerFeedback |-> ""]

CompReview(name, empRating, mgrRating, empComment, mgrComment) ==
    [competencyName |-> name, employeeRating |-> empRating,
     managerRating |-> mgrRating, employeeComments |-> empComment,
     managerComments |-> mgrComment, comment |-> ""]

\* ------------------------------------------------------------------------
\* The reconciliation engine: applyUpdateToReviewObject.  okrs is the
\* module-level okrCache the function reads.
\* ------------------------------------------------------------------------

\* Lines 330-356: the three free-text comments under all their aliases.
ApplyComments(r, d) ==
    LET s1 == JsOr(d.cm1, JsOr(d.accomplishments, d.keyAccomplishments))
        s2 == JsOr(d.cm2, JsOr(d.plan, d.nextQuarterPlan))
        s3 == JsOr(d.cm3, d.managerOverallComments)
        r1 == IF s1 # ""
              THEN [r EXCEPT !.overallComments.cm1 = Trim(s1),
                             !.overalComments.cm1 = Trim(s1),
                             !.cm1 = Trim(s1), !.accomplishments = Trim(s1),
                             !.keyAccomplishments = Trim(s1)]
              ELSE r
        r2 == IF s2 # ""
              THEN [r1 EXCEPT !.overallComments.cm2 = Trim(s2),
                              !.overalComments.cm2 = Trim(s2),
                              !.cm2 = Trim(s2), !.plan = Trim(s2),
                              !.nextQuarterPlan = Trim(s2)]
              ELSE r1
    IN  IF s3 # ""
        THEN [r2 EXCEPT !.overallComments.cm3 = Trim(s3),
                        !.overalComments.cm3 = Trim(s3),
                        !.cm3 = Trim(s3), !.managerOverallComments = Trim(s3)]
        ELSE r2

\* Lines 362-379: goals bootstrapped from the source objectives.
GoalFromOkr(o) ==
    [_id |-> o._id, objective |-> o.objective, weight |-> o.weight,
     progressStatus |-> o.progressStatus,
     employeeRating |-> 0, managerRating |-> 0,
     employeeFeedback |-> "", managerFeedback |-> "",
     children |-> [i \in 1..Len(o.children) |->
         [_id |-> o.children[i]._id,
          keyResultName |-> o.children[i].keyResultName,
          target |-> o.children[i].target, actual |-> o.children[i].actual,
          employeeRating |-> 0, managerRating |-> 0,
          employeeFeedback |-> "", managerFeedback |-> ""]]]

InitGoals(r, okrs) ==
    IF Len(r.goals) = 0
    THEN [r EXCEPT !.goals = [i \in 1..Len(okrs) |-> GoalFromOkr(okrs[i])]]
    ELSE r

\* Lines 382-390: the five-name roster, one employee and one manager entry each.
RosterEntries ==
    FlatSeq([i \in 1..Len(competencyOrder) |->
        << [competencyName |-> competencyOrder[i], type |-> "employee",
            Feedback |-> 0, Comments |-> "", comments |-> ""],
           [competencyName |-> competencyOrder[i], type |-> "manager",
            Feedback |-> 0, Comments |-> "", comments |-> ""] >>])

InitCompetencies(r) ==
    IF Len(r.competencies) = 0 THEN [r EXCEPT !.competencies = RosterEntries] ELSE r

\* Lines 457-466: round(mean over the key results of min(100, actual/target*100)).
\* The sum is kept exact over the common denominator d.
ProgressOf(children) ==
    LET n == Len(children)
        ach(kr, d) == IF kr.target > 0
                      THEN Min(100 * d, (kr.actual * 100 * d) \div kr.target)
                      ELSE 0
    IN  The({ RoundDiv(SumSeq([i \in 1..n |-> ach(children[i], d)]), d * n) :
              d \in { ProdSeq([i \in 1..n |->
                         IF children[i].target > 0 THEN children[i].target ELSE 1]) } })

\* Lines 395-423: live-progress sync of one goal from the source objectives.
SyncGoal(goal, okrs) ==
    LET syncKr(kr, o) ==
            The({ IF ki = 0 THEN kr
                  ELSE [kr EXCEPT !.actual = o.children[ki].actual,
                                  !.target = o.children[ki].target] :
                  ki \in { FindIndex(o.children, LAMBDA ck :
                              \/ Trim(ck._id) = Trim(kr._id)
                              \/ LowerTrim(ck.keyResultName) = LowerTrim(kr.keyResultName)) } })
    IN  The({ IF oi = 0 THEN goal
              ELSE [goal EXCEPT !.progressStatus = okrs[oi].progressStatus,
                                !.children = [i \in 1..Len(goal.children) |->
                                                 syncKr(goal.children[i], okrs[oi])]] :
              oi \in { FindIndex(okrs, LAMBDA o :
                          \/ Trim(o._id) = Trim(goal._id)
                          \/ LowerTrim(o.objective) = LowerTrim(goal.objective)) } })

\* An objective update that also clears the rating it does not carry.
MergeObjectiveClearing(goal, synced, objectiveUpdates) ==
    LET merged(u) ==
            [synced EXCEPT
               !.employeeRating = IF u.employeeRating # UNDEF THEN u.employeeRating ELSE 0,
               !.managerRating = IF u.managerRating # UNDEF THEN u.managerRating ELSE 0]
        hits == { i \in 1..Len(objectiveUpdates) :
                    objectiveUpdates[i].id # ""
                    /\ Trim(objectiveUpdates[i].id) = Trim(goal._id) }
    IN  IF hits = {} THEN synced
        ELSE merged(objectiveUpdates[CHOOSE i \in hits : \A j \in hits : i <= j])

\* Lines 425-435: the objective rating update that addresses this goal.
MergeObjective(goal, synced, objectiveUpdates) ==
    LET merged(u) ==
            [synced EXCEPT
               !.employeeRating = IF u.employeeRating # UNDEF THEN u.employeeRating ELSE @,
               !.managerRating = IF u.managerRating # UNDEF THEN u.managerRating ELSE @,
               !.employeeFeedback = IF u.employeeFeedback # "" THEN u.employeeFeedback ELSE @,
               !.managerFeedback = IF u.managerFeedback # "" THEN u.managerFeedback ELSE @]
    IN  The({ IF ui = 0 THEN synced ELSE merged(objectiveUpdates[ui]) :
              ui \in { FindIndex(objectiveUpdates, LAMBDA u :
                          \/ (u.id # "" /\ Trim(u.id) = Trim(goal._id))
                          \/ (u.objectiveName # ""
                              /\ normalizeString(u.objectiveName)
                                    = normalizeString(goal.objective))) } })

\* Lines 438-454: the key-result update that addresses this key result.
MergeKeyResult(kr, krUpdates) ==
    LET merged(u) ==
            [kr EXCEPT
               !.actual = IF u.actual # UNDEF THEN u.actual ELSE @,
               !.employeeRating = IF u.employeeRating # UNDEF THEN u.employeeRating ELSE @,
               !.managerRating = IF u.managerRating # UNDEF THEN u.managerRating ELSE @,
               !.employeeFeedback = IF u.employeeFeedback # "" THEN u.employeeFeedback ELSE @,
               !.managerFeedback = IF u.managerFeedback # "" THEN u.managerFeedback ELSE @]
    IN  The({ IF ui = 0 THEN kr ELSE merged(krUpdates[ui]) :
              ui \in { FindIndex(krUpdates, LAMBDA u :
                          \/ (u.id # "" /\ Trim(u.id) = Trim(kr._id))
                          \/ (u.keyResultName # ""
                              /\ normalizeString(u.keyResultName)
                                    = normalizeString(kr.keyResultName))) } })

\* Lines 393-470: sync, merge and progress recomputation of every goal.
MergeGoals(r, d, okrs) ==
    LET withProgress(g) ==
            IF Len(g.children) > 0
            THEN [g EXCEPT !.progressStatus = ProgressOf(g.children)]
            ELSE g
        withKeyResults(g) ==
            [g EXCEPT !.children =
                [i \in 1..Len(g.children) |-> MergeKeyResult(g.children[i], d.keyResultReviews)]]
        one(goal) ==
            The({ withProgress(g2) :
                  g2 \in { withKeyResults(g1) :
                           g1 \in { MergeObjective(goal, synced, d.objectiveReviews) :
                                    synced \in { SyncGoal(goal, okrs) } } } })
    IN  [r EXCEPT !.goals = [i \in 1..Len(r.goals) |-> one(r.goals[i])]]

\* Lines 479-482: matchComp, on the normalised update name uName.
matchComp(cName, uName) ==
    LET n == normalizeString(cName)
    IN  \/ n = uName
        \/ StrIncludes(n, uName)
        \/ StrIncludes(uName, n)
        \/ StripSpaces(n) = StripSpaces(uName)

\* Lines 476-501: one competency update applied to the entries.
ApplyCompetencyUpdate(comps, update) ==
    LET uName == normalizeString(update.competencyName)
        empCmt == JsOr(update.employeeComments, update.comment)
        mgrCmt == JsOr(update.managerComments, update.comment)
        forEmployee(cs, empIdx) ==
            IF empIdx = 0 THEN cs
            ELSE [cs EXCEPT ![empIdx] =
                    [@ EXCEPT
                       !.Feedback = IF update.employeeRating # UNDEF
                                    THEN update.employeeRating ELSE @,
                       !.Comments = IF empCmt # "" THEN Trim(empCmt) ELSE @,
                       !.comments = IF empCmt # "" THEN Trim(empCmt) ELSE @]]
        forManager(cs, mgrIdx) ==
            IF mgrIdx = 0 THEN cs
            ELSE [cs EXCEPT ![mgrIdx] =
                    [@ EXCEPT
                       !.Feedback = IF update.managerRating # UNDEF
                                    THEN update.managerRating ELSE @,
                       !.Comments = IF mgrCmt # "" THEN Trim(mgrCmt) ELSE @,
                       !.comments = IF mgrCmt # "" THEN Trim(mgrCmt) ELSE @]]
        idx(cs, type) ==
            FindIndex(cs, LAMBDA c : c.type = type /\ matchComp(c.competencyName, uName))
    IN  IF uName = "" THEN comps
        ELSE The({ forManager(c1, idx(c1, "manager")) :
                   c1 \in { forEmployee(comps, idx(comps, "employee")) } })

\* Competency updates applied up to the first that matches no entry.
RECURSIVE ApplyUntilUnmatched(_, _)
ApplyUntilUnmatched(comps, updates) ==
    IF updates = <<>> THEN comps
    ELSE IF ApplyCompetencyUpdate(comps, Head(updates)) = comps THEN comps
    ELSE ApplyUntilUnmatched(ApplyCompetencyUpdate(comps, Head(updates)), Tail(updates))

RECURSIVE ApplyCompetencyUpdates(_, _)
ApplyCompetencyUpdates(comps, updates) ==
    IF updates = <<>> THEN comps
    ELSE The({ ApplyCompetencyUpdates(c1, Tail(updates)) :
               c1 \in { ApplyCompetencyUpdate(comps, Head(updates)) } })

\* Lines 472-503
MergeCompetencies(r, d) ==
    [r EXCEPT !.competencies = ApplyCompetencyUpdates(@, d.competencyReviews)]

\* The ratings of one role, those that are 0 included.
RatingListAll(r, type) ==
    LET rate(x) == IF type = "employee" THEN x.employeeRating ELSE x.managerRating
        ofGoal(g) == <<rate(g)>> \o [i \in 1..Len(g.children) |-> rate(g.children[i])]
    IN  FlatSeq([i \in 1..Len(r.goals) |-> ofGoal(r.goals[i])]) \o
        FlatSeq([i \in 1..Len(r.competencies) |->
            IF r.competencies[i].type = type THEN <<r.competencies[i].Feedback>> ELSE <<>>])

\* Lines 506-525: the ratings of one role that are greater than 0, in
\* document order: each goal, its key results, then the competencies.
getRatingList(r, type) ==
    LET pos(x) == IF x > 0 THEN <<x>> ELSE <<>>
        rate(x) == IF type = "employee" THEN x.employeeRating ELSE x.managerRating
        ofGoal(g) == pos(rate(g)) \o
                     FlatSeq([i \in 1..Len(g.children) |-> pos(rate(g.children[i]))])
    IN  FlatSeq([i \in 1..Len(r.goals) |-> ofGoal(r.goals[i])]) \o
        FlatSeq([i \in 1..Len(r.competencies) |->
            IF r.competencies[i].type = type
            THEN pos(r.competencies[i].Feedback) ELSE <<>>])

\* The statistics with a total achievement that is not capped.
StatsUncapped(r) ==
    LET er == getRatingList(r, "employee")
        mr == getRatingList(r, "manager")
        le == IF Len(er) = 0 THEN 1 ELSE Len(er)
        lm == IF Len(mr) = 0 THEN 1 ELSE Len(mr)
    IN  [r EXCEPT
           !.employeesRating = RoundDiv(100 * SumSeq(er), le),
           !.managersRating = RoundDiv(100 * SumSeq(mr), lm),
           !.overallRating = RoundDiv(40 * SumSeq(er) * lm + 60 * SumSeq(mr) * le, le * lm),
           !.totalAchievement =
               SumSeq([i \in 1..Len(r.goals) |-> r.goals[i].progressStatus * r.goals[i].weight])]

\* Lines 527-544: the derived statistics.  The three ratings and the total
\* achievement are numbers with two decimals (toFixed(2)); the model keeps
\* them in hundredths.
RecalculateStats(r) ==
    LET stats(se, sm, le, lm) ==
            [r EXCEPT
               !.employeesRating = RoundDiv(100 * se, le),
               !.managersRating = RoundDiv(100 * sm, lm),
               !.overallRating = RoundDiv(40 * se * lm + 60 * sm * le, le * lm),
               !.totalAchievement =
                   Min(10000, SumSeq([i \in 1..Len(r.goals) |->
                                  r.goals[i].progressStatus * r.goals[i].weight]))]
    IN  The({ stats(SumSeq(er), SumSeq(mr),
                    IF Len(er) = 0 THEN 1 ELSE Len(er),
                    IF Len(mr) = 0 THEN 1 ELSE Len(mr)) :
              er \in { getRatingList(r, "employee") },
              mr \in { getRatingList(r, "manager") } })

\* Lines 327-547
applyUpdateToReviewObject(reviewObj, reviewData, okrs) ==
    The({ RecalculateStats(r3) :
          r3 \in { MergeCompetencies(r2, reviewData) :
                   r2 \in { MergeGoals(r1, reviewData, okrs) :
                            r1 \in { InitCompetencies(
                                         InitGoals(ApplyComments(reviewObj, reviewData),
                                                   okrs)) } } } })

\* Lines 328-356 and 472-503: the object that was passed as reviewObj, as it
\* is once the call has returned.  The result is a shallow copy (line 328):
\* the two comment objects of the input are written through it (337-355),
\* and the competency entries, which a copied array still shares with the
\* input (475), are written in place (485-498).  Entries created by the
\* roster initialisation (382-390) are new and belong to the result alone.
InputAfter(reviewObj, reviewData, okrs) ==
    The({ [reviewObj EXCEPT
             !.overallComments = out.overallComments,
             !.overalComments = out.overalComments,
             !.competencies = IF Len(@) > 0 THEN out.competencies ELSE @] :
          out \in { applyUpdateToReviewObject(reviewObj, reviewData, okrs) } })

\* ------------------------------------------------------------------------
\* The session cache: pure parts of okrService.ts
\* ------------------------------------------------------------------------

\* A resolution that tries the employee name before the identifier.
ResolveNameFirst(reviews, d) ==
    LET byId == FindIndex(reviews, LAMBDA r :
                    Trim(d.id) # "" /\ LowerTrim(r._id) = LowerTrim(Trim(d.id)))
        byName == FindIndex(reviews, LAMBDA r :
                    d.employeeFullName # ""
                    /\ StrIncludes(normalizeString(r.employeeFullName),
                                   normalizeString(d.employeeFullName)))
        byEmp == FindIndex(reviews, LAMBDA r :
                    d.employeeId # "" /\ LowerTrim(r.employeeId) = LowerTrim(d.employeeId))
    IN  IF byName # 0 THEN byName
        ELSE IF byId # 0 THEN byId
        ELSE IF byEmp # 0 THEN byEmp
        ELSE IF Len(reviews) > 0 THEN 1 ELSE 0

\* Lines 561-567 and 610-633: the index of the record an update payload
\* addresses: by id, else by employee-name substring, else by employee id,
\* else the first record; 0 when the list is empty.
ResolveTarget(reviews, d) ==
    LET byId == FindIndex(reviews, LAMBDA r :
                    Trim(d.id) # "" /\ LowerTrim(r._id) = LowerTrim(Trim(d.id)))
        byName == FindIndex(reviews, LAMBDA r :
                    d.employeeFullName # ""
                    /\ StrIncludes(normalizeString(r.employeeFullName),
                                   normalizeString(d.employeeFullName)))
        byEmp == FindIndex(reviews, LAMBDA r :
                    d.employeeId # "" /\ LowerTrim(r.employeeId) = LowerTrim(d.employeeId))
    IN  IF byId # 0 THEN byId
        ELSE IF byName # 0 THEN byName
        ELSE IF byEmp # 0 THEN byEmp
        ELSE IF Len(reviews) > 0 THEN 1 ELSE 0

\* Line 553 and 569-572: whether optimisticUpdateCache writes at all.
OptimisticWrites(form) == form.shape # "null" /\ Len(form.reviews) > 0

\* Lines 561-567: the id of the record optimisticUpdateCache(reviewData)
\* updates, "" when it updates none.
OptimisticTarget(form, reviewData) ==
    IF ~OptimisticWrites(form) THEN ""
    ELSE form.reviews[ResolveTarget(form.reviews, reviewData)]._id

\* Lines 552-579: the form after optimisticUpdateCache(reviewData).
OptimisticForm(form, reviewData, okrs) ==
    IF ~OptimisticWrites(form) THEN form
    ELSE The({ [form EXCEPT
                  !.reviews[FindIndex(form.reviews, LAMBDA r : r._id = target._id)] =
                      applyUpdateToReviewObject(target, reviewData, okrs)] :
               target \in { form.reviews[ResolveTarget(form.reviews, reviewData)] } })

\* Lines 304-318: the form after syncReviewWithOKRs.
SyncedForm(form, okrs) ==
    IF ~OptimisticWrites(form) THEN form
    ELSE [form EXCEPT !.reviews[1] = applyUpdateToReviewObject(@, NoPayload, okrs)]

\* Line 607: the records, most recently created first.
RECURSIVE SortByCreated(_)
SortByCreated(reviews) ==
    IF reviews = <<>> THEN <<>>
    ELSE LET m == CHOOSE i \in 1..Len(reviews) :
                      /\ \A j \in 1..Len(reviews) : reviews[j].createdAt <= reviews[i].createdAt
                      /\ \A j \in 1..(i - 1) : reviews[j].createdAt < reviews[i].createdAt
         IN  <<reviews[m]>> \o
             SortByCreated([k \in 1..(Len(reviews) - 1) |->
                               IF k < m THEN reviews[k] ELSE reviews[k + 1]])

\* A freshness test that still answers from the cache at exactly 30 s.
ServesCachedInclusive(force, form, now, last) ==
    ~force /\ form.shape # "null" /\ now - last <= FreshWindow

\* Line 286: whether getFreshReviewForm answers from the cache.
ServesCached(force, form, now, last) ==
    ~force /\ form.shape # "null" /\ now - last < FreshWindow

\* sessionStorage items: absent, or the JSON text of a value.  The values
\* of the model are plain data, which JSON.stringify and JSON.parse copy.
AbsentList == [present |-> FALSE, value |-> <<>>]
AbsentForm == [present |-> FALSE, value |-> NoForm]
Stored(v) == [present |-> TRUE, value |-> v]

\* ------------------------------------------------------------------------
\* Tool calls
\* ------------------------------------------------------------------------
\* function.arguments of a tool call: an object ("obj"), the JSON text
\* "null" ("null"), or a string that is not JSON ("badjson").
Args(id, value, reviewId, rating, role, type, name, data) ==
    [id |-> id, value |-> value, reviewId |-> reviewId, rating |-> rating,
     role |-> role, type |-> type, name |-> name, data |-> data]

NoArgs == Args("", UNDEF, "", UNDEF, "", "", "", NoPayload)

ToolCall(name, argk, args) == [name |-> name, argk |-> argk, args |-> args]

SelfAssessmentPayload ==
    [NoPayload EXCEPT !.objectiveReviews = << ObjReview("o1", "", 4, UNDEF) >>]

CompetencyPayload ==
    [NoPayload EXCEPT !.competencyReviews =
        << CompReview("Leadership", UNDEF, 3, "", "") >>]

\* The tool calls the facilitator sends in the model.
UpdateKr ==
    ToolCall("update_key_result", "obj", Args("k1", 5, "", UNDEF, "", "", "", NoPayload))
BadJson == ToolCall("update_key_result", "badjson", NoArgs)
RateComp ==
    ToolCall("update_okr_rating", "obj",
             Args("", UNDEF, "", 4, "employee", "competency", "Leadership", NoPayload))
NullRating == ToolCall("update_okr_rating", "null", NoArgs)
SubmitSelf ==
    ToolCall("submit_employee_self_assessment", "obj",
             Args("", UNDEF, "", UNDEF, "", "", "", SelfAssessmentPayload))
\* submit_employee_self_assessment for the record the three identifying
\* fields name.
SubmitFor(id, name, empId) ==
    ToolCall("submit_employee_self_assessment", "obj",
             Args("", UNDEF, "", UNDEF, "", "", "",
                  [SelfAssessmentPayload EXCEPT !.id = id, !.employeeFullName = name,
                                                !.employeeId = empId]))
NullSubmit == ToolCall("submit_competency_review", "null", NoArgs)
EndSession == ToolCall("end_session", "obj", NoArgs)
UnknownTool == ToolCall("open_report", "obj", NoArgs)

FireAndForget == {"update_key_result", "update_okr_rating"}
BlockingSubmit == {"submit_employee_self_assessment", "submit_competency_review"}
Blocking == BlockingSubmit \cup {"end_session"}

\* Lines 315-372: the update payload the background task builds from the
\* arguments of update_okr_rating once the review id is resolved.
BuildUpdateData(a, targetId, employee) ==
    LET isEmp == a.role = "employee"
        base == [NoPayload EXCEPT !.id = targetId, !.employeeFullName = employee]
    IN  CASE a.type = "objective" ->
               [base EXCEPT !.objectiveReviews =
                   << ObjReview(a.id, a.name,
                                IF isEmp THEN a.rating ELSE UNDEF,
                                IF isEmp THEN UNDEF ELSE a.rating) >>]
          [] a.type = "key_result" ->
               [base EXCEPT !.keyResultReviews =
                   << KrReview(a.id, a.name, UNDEF,
                               IF isEmp THEN a.rating ELSE UNDEF,
                               IF isEmp THEN UNDEF ELSE a.rating) >>]
          [] a.type = "competency" ->
               [base EXCEPT !.competencyReviews =
                   << CompReview(a.name,
                                 IF isEmp THEN a.rating ELSE UNDEF,
                                 IF isEmp THEN UNDEF ELSE a.rating, "", "") >>]
          [] OTHER -> base

\* Lines 323-326: the review id taken from the arguments or the session ref.
TargetIdOf(a, ref) ==
    LET t == JsOr(a.reviewId, a.id)
    IN  IF (t = "" \/ t = "unknown") /\ ref # "" THEN ref ELSE t

\* Lines 331-339: the id of the first record of a form, "" when there is none.
FirstReviewId(form) ==
    IF form.shape # "null" /\ Len(form.reviews) > 0 THEN form.reviews[1]._id ELSE ""

\* ------------------------------------------------------------------------
\* State
\* ------------------------------------------------------------------------
VARIABLES
    env,                  \* "sim": no API key; "live_put" / "live_post": the
                          \* submission URL does / does not carry the record id
    clock,                \* Date.now(), in ticks of 10 s
    phase,                \* "idle", "starting", "active", "ended"
    okrCache, cachedReviewForm, lastReviewFetchTime,
    updateMutex,          \* the submissions queued on the promise chain, oldest first
    ssOkr, ssReview,      \* sessionStorage items tara_okr_cache, tara_review_cache
    evt,                  \* review-data-updated events dispatched by the last step
    isCallActive, isSpeaking, isToolExecuting,
    silenceTimer,         \* whether the timeout of silenceTimerRef is pending
    silenceStage,
    sentStage,            \* the silence message sent by the last step, 0 if none
    globalReviewIdRef,
    stopTimer,            \* end_session timeouts pending
    toolCallList,         \* toolCallList[b]: the tool calls of message b
    loop,                 \* loop[b]: the dispatch loop of message b
    cur,                  \* the dispatch loop that is running synchronously, 0 if none
    task,                 \* task[t]: the asynchronous operation t
    microQ,               \* continuations ready to run, oldest first
    toolOutput,           \* toolOutput[c]: tool-output texts sent for tool call c
    toast,                \* toast[c]: titles of the toasts raised for tool call c
    mockForm, mockOkrs,   \* the objects MOCK_REVIEW_FORM and MOCK_OKRS as they are now
    submitted, started,   \* history: submissions in call order, sections in start order
    participantNamesRef,  \* the names the call was started with
    speakerMapRef,        \* the label of each speaker channel seen ("" for none)
    assignedRolesRef,     \* the names given to a channel so far
    currentSpeaker,       \* the label of the speaker of the last attributed transcript
    newMessage,           \* the last transcript message: its speaker id and its label
    record, applied,      \* the engine on its own: the record first given, the payloads so far
    passed,               \* the object passed to the last call, as it is now
    returned              \* the object the last call returned

vars == <<env, clock, phase, okrCache, cachedReviewForm, lastReviewFetchTime,
          updateMutex, ssOkr, ssReview, evt, isCallActive, isSpeaking,
          isToolExecuting, silenceTimer, silenceStage, sentStage,
          globalReviewIdRef, stopTimer, toolCallList, loop, cur, task, microQ,
          toolOutput, toast, mockForm, mockOkrs, submitted, started,
          participantNamesRef, speakerMapRef, assignedRolesRef, currentSpeaker,
          newMessage, record, applied, passed, returned>>

Batches == 1..MaxBatches
SpeakerIds == 0..MaxSpeaker      \* the speaker channel ids of transcripts

\* No transcript message yet.
NoMessage == [speakerId |-> UNDEF, speaker |-> ""]

\* currentSpeaker as onMessage reads it (line 156).  The handlers are
\* defined by the effect of lines 109-469, whose only dependency is the
\* Vapi instance, one object for the lifetime of the page: the effect runs
\* once, after the first render, and currentSpeaker in it is the state of
\* that render, the initial value of line 89.
ClosureCurrentSpeaker == "Participant"

\* Lines 93-97: the names and the speaker table of a page just loaded.
DefaultNames == [employee |-> "Employee", manager |-> "Manager"]
NoSpeakers == [s \in SpeakerIds |-> ""]
CallIds == 1..(MaxBatches * MaxLen)
StartTask == 0               \* the id of the task of startCall
UiTasks == {-k : k \in 1..MaxUi}
TaskIds == UiTasks \cup {StartTask} \cup CallIds

CallId(b, i) == (b - 1) * MaxLen + i
BatchOf(c) == ((c - 1) \div MaxLen) + 1
IndexOf(c) == ((c - 1) % MaxLen) + 1
CallOf(c) == toolCallList[BatchOf(c)][IndexOf(c)]
Arrived(c) == IndexOf(c) <= Len(toolCallList[BatchOf(c)])

NoTask ==
    [kind |-> "none", pc |-> "none", data |-> NoPayload, force |-> FALSE,
     now |-> 0, fetched |-> "no", ret |-> NoForm, result |-> "none",
     nullData |-> FALSE, method |-> "", target |-> "", optimistic |-> "",
     reqs |-> <<>>]

Init ==
    /\ env \in {"sim", "live_put", "live_post"}
    /\ clock = StartClock
    /\ phase = "idle"
    /\ okrCache = <<>>
    /\ cachedReviewForm = NoForm
    /\ lastReviewFetchTime = 0
    /\ updateMutex = <<>>
    /\ ssOkr = AbsentList
    /\ ssReview = AbsentForm
    /\ evt = 0
    /\ isCallActive = FALSE
    /\ isSpeaking = FALSE
    /\ isToolExecuting = FALSE
    /\ silenceTimer = FALSE
    /\ silenceStage = 0
    /\ sentStage = 0
    /\ globalReviewIdRef = ""
    /\ stopTimer = 0
    /\ toolCallList = [b \in Batches |-> <<>>]
    /\ loop = [b \in Batches |-> [pc |-> "none", i |-> 0]]
    /\ cur = 0
    /\ task = [t \in TaskIds |-> NoTask]
    /\ microQ = <<>>
    /\ toolOutput = [c \in CallIds |-> <<>>]
    /\ toast = [c \in CallIds |-> <<>>]
    /\ mockForm = MOCK_REVIEW_FORM
    /\ mockOkrs = MOCK_OKRS
    /\ submitted = <<>>
    /\ started = <<>>
    /\ participantNamesRef = DefaultNames
    /\ speakerMapRef = NoSpeakers
    /\ assignedRolesRef = <<>>
    /\ currentSpeaker = "Participant"
    /\ newMessage = NoMessage
    /\ record = NoRecord
    /\ applied = <<>>
    /\ passed = NoRecord
    /\ returned = NoRecord

\* ------------------------------------------------------------------------
\* The module state of okrService.ts as one value, and the synchronous
\* functions that change it.  evt counts the events dispatched so far in
\* the running step.
\* ------------------------------------------------------------------------
Svc ==
    [form |-> cachedReviewForm, ssr |-> ssReview, okr |-> okrCache,
     sso |-> ssOkr, last |-> lastReviewFetchTime, evt |-> 0]

Commit(S) ==
    /\ cachedReviewForm' = S.form
    /\ ssReview' = S.ssr
    /\ okrCache' = S.okr
    /\ ssOkr' = S.sso
    /\ lastReviewFetchTime' = S.last
    /\ evt' = S.evt
    \* without an API key the caches are the mock objects themselves, so
    \* what is written to a cache is written to the mock object
    /\ mockForm' = IF env = "sim" /\ S.form.shape # "null" THEN S.form ELSE mockForm
    /\ mockOkrs' = IF env = "sim" /\ S.okr # <<>> THEN S.okr ELSE mockOkrs
    \* the operands of the engine on its own are no state of the service
    /\ UNCHANGED <<record, applied, passed, returned>>

\* Lines 552-585
optimisticUpdateCache(S0, reviewData) ==
    The({ IF OptimisticWrites(S.form)
          THEN The({ [S EXCEPT !.form = f, !.ssr = Stored(f), !.evt = @ + 1] :
                     f \in { OptimisticForm(S.form, d, S.okr) } })
          ELSE S :
          S \in {S0}, d \in {reviewData} })

\* Lines 304-321
syncReviewWithOKRs(S0, silent) ==
    The({ IF OptimisticWrites(S.form)
          THEN The({ [S EXCEPT !.form = f, !.ssr = Stored(f),
                               !.evt = IF silent THEN @ ELSE @ + 1] :
                     f \in { SyncedForm(S.form, S.okr) } })
          ELSE S :
          S \in {S0} })

\* Lines 297-302
clearReviewCache(S) ==
    [S EXCEPT !.form = NoForm, !.ssr = AbsentForm, !.sso = AbsentList, !.last = 0]

\* Lines 288-294: getFreshReviewForm after its fetch has answered fresh
\* (NoForm when the fetch failed); now is the time the call started at.
FreshArrived(S, fresh, now) ==
    IF fresh.shape # "null"
    THEN The({ [S1 EXCEPT !.last = now] :
               S1 \in { syncReviewWithOKRs([S EXCEPT !.form = fresh,
                                                     !.ssr = Stored(fresh)], TRUE) } })
    ELSE S

\* Lines 133-135: fetchEmployeeOKRs without an API key.
MockOkrs(S) == [S EXCEPT !.okr = mockOkrs]

\* Lines 163-187 and 200-203: fetchEmployeeOKRs after its fetch has answered.
OkrsArrived(S, ok) ==
    IF ok
    THEN syncReviewWithOKRs([S EXCEPT !.okr = BackendOkrs, !.sso = Stored(BackendOkrs)],
                            FALSE)
    ELSE S

\* Lines 701-710 and 729-734: a submission the backend accepted.
SubmitAccepted(S, reviewData) ==
    The({ [S1 EXCEPT !.ssr = Stored(S1.form), !.evt = @ + 1] :
          S1 \in { optimisticUpdateCache(S, reviewData) } })

\* Lines 778-788: the place of key result id in the source objectives,
\* <<objectiveIndex, krIndex>>, <<0, 0>> when it is not there.
FindKeyResult(okrs, id) ==
    LET has(o) == FindIndex(o.children, LAMBDA kr : Trim(kr._id) = Trim(id))
    IN  The({ IF oi = 0 THEN <<0, 0>> ELSE <<oi, has(okrs[oi])>> :
              oi \in { FindIndex(okrs, LAMBDA o : has(o) # 0) } })

\* Lines 764-767: the optimistic part of updateKeyResult.
KeyResultOptimistic(S, id, value) ==
    optimisticUpdateCache(S,
        [NoPayload EXCEPT !.keyResultReviews = << KrReview(id, "", value, UNDEF, UNDEF) >>])

\* Lines 797-803: updateKeyResult without an API key.
KeyResultSimulated(S0, id, value) ==
    The({ [(IF at[1] # 0
            THEN [S EXCEPT !.okr[at[1]].children[at[2]].actual = value]
            ELSE S) EXCEPT !.evt = @ + 1] :
          S \in {S0}, at \in { FindKeyResult(S0.okr, id) } })

\* Lines 813-821: updateKeyResult after the backend accepted the PUT.
KeyResultAccepted(S0, id, value) ==
    The({ [(IF at[1] # 0
            THEN [S EXCEPT !.okr[at[1]].children[at[2]].actual = value,
                           !.sso = Stored([S.okr EXCEPT
                                              ![at[1]].children[at[2]].actual = value])]
            ELSE S) EXCEPT !.evt = @ + 1] :
          S \in {S0}, at \in { FindKeyResult(S0.okr, id) } })

\* ------------------------------------------------------------------------
\* Asynchronous operations.  A task is one call of an async function of the
\* program, with the awaits of the functions it calls; pc is the await it
\* is suspended at.  The pcs of ReadyPcs wait for a microtask, the *_net
\* ones for the answer of a fetch.
\* ------------------------------------------------------------------------
ReadyPcs ==
    {"okrs_ret", "form_mock", "form_ret", "sec_start", "sec_okrs_ret",
     "sec_form_mock", "sec_form_ret", "settled"}

SectionPcs ==
    {"sec_start", "sec_okrs_net", "sec_okrs_ret", "sec_form_net", "sec_form_mock",
     "sec_form_ret", "sec_req_net", "sec_post_net"}

\* participantNamesRef.current.employee, set by startCall (line 558)
EmployeeName == "Ravi"
ManagerName == "Meera"

Finished(tk) == [NoTask EXCEPT !.kind = tk.kind, !.pc = "done", !.result = tk.result]

\* A task whose call of getFreshReviewForm has returned to it.
Resumed(tk) == [tk EXCEPT !.force = FALSE, !.now = 0, !.fetched = "no", !.ret = NoForm]

\* Lines 284-287: getFreshReviewForm up to its return or its await; sec tells
\* whether the call is the one of line 595.
getFreshReviewForm(S, tk, force, sec) ==
    LET tk1 == [tk EXCEPT !.force = force, !.now = clock]
    IN  IF ServesCached(force, S.form, clock, S.last)
        THEN [tk1 EXCEPT !.pc = IF sec THEN "sec_form_ret" ELSE "form_ret",
                         !.ret = S.form, !.fetched = "no"]
        ELSE IF env = "sim"
        THEN [tk1 EXCEPT !.pc = IF sec THEN "sec_form_mock" ELSE "form_mock",
                         !.fetched = "pending"]
        ELSE [tk1 EXCEPT !.pc = IF sec THEN "sec_form_net" ELSE "form_net",
                         !.fetched = "pending"]

\* Lines 121-161: fetchEmployeeOKRs up to its return or its await.
fetchEmployeeOKRs(S, tk, sec) ==
    IF env = "sim"
    THEN [S |-> MockOkrs(S),
          tk |-> [tk EXCEPT !.pc = IF sec THEN "sec_okrs_ret" ELSE "okrs_ret"]]
    ELSE [S |-> S,
          tk |-> [tk EXCEPT !.pc = IF sec THEN "sec_okrs_net" ELSE "okrs_net"]]

\* A submission whose section starts at once instead of joining the chain.
SubmitUnchained(S, tk, reviewData, nullData) ==
    IF nullData /\ S.form.shape # "null"
    THEN [S |-> S, tk |-> [tk EXCEPT !.pc = "settled", !.result = "threw"]]
    ELSE [S |-> IF nullData THEN S ELSE optimisticUpdateCache(S, reviewData),
          tk |-> [tk EXCEPT !.data = reviewData, !.nullData = nullData,
                            !.pc = "sec_start"]]

\* Lines 587-591: submitEmployeeSelfAssessment up to its await.  A null
\* payload makes line 554 throw when there is a cached form.  The task
\* keeps the id of the record the optimistic update of line 589 wrote.
submitEmployeeSelfAssessment(S, tk, reviewData, nullData) ==
    IF nullData /\ S.form.shape # "null"
    THEN [S |-> S, tk |-> [tk EXCEPT !.pc = "settled", !.result = "threw"]]
    ELSE [S |-> IF nullData THEN S ELSE optimisticUpdateCache(S, reviewData),
          tk |-> [tk EXCEPT !.data = reviewData, !.nullData = nullData,
                            !.optimistic = IF nullData THEN ""
                                           ELSE OptimisticTarget(S.form, reviewData),
                            !.pc = IF updateMutex = <<>> THEN "sec_start" ELSE "queued"]]

\* Lines 596-699: the queued section from the check of the form to its
\* return ("returned") or the await of its request.
SectionBody(S, tk) ==
    IF S.form.shape = "null" \/ tk.nullData
    THEN [S |-> S, tk |-> [tk EXCEPT !.pc = "returned", !.result = "false"]]
    ELSE The({ IF at = 0
               THEN [S |-> S0, tk |-> [tk EXCEPT !.pc = "returned", !.result = "false"]]
               ELSE IF env = "sim"
               THEN [S |-> S1, tk |-> [tk EXCEPT !.pc = "returned", !.result = "true",
                                                 !.target = S1.form.reviews[at]._id]]
               ELSE [S |-> S1,
                     tk |-> [tk EXCEPT !.pc = "sec_req_net",
                                       !.target = S1.form.reviews[at]._id,
                                       !.method = IF env = "live_put" THEN "PUT"
                                                  ELSE "POST",
                                       !.reqs = << <<IF env = "live_put" THEN "PUT"
                                                     ELSE "POST", "sent">> >>]] :
               S0 \in { [S EXCEPT !.form.reviews = SortByCreated(@)] },
               at \in { ResolveTarget(SortByCreated(S.form.reviews), tk.data) },
               \* line 645 reconciles the cached record itself
               S1 \in { IF ResolveTarget(SortByCreated(S.form.reviews), tk.data) = 0
                        THEN [S EXCEPT !.form.reviews = SortByCreated(@)]
                        ELSE [S EXCEPT !.form.reviews =
                                 [SortByCreated(@) EXCEPT
                                    ![ResolveTarget(SortByCreated(S.form.reviews), tk.data)] =
                                        InputAfter(@, tk.data, S.okr)]] } })

\* Line 595: the form the section works on, the cached one or a fetched one.
SectionForm(S, tk) ==
    IF S.form.shape # "null"
    THEN SectionBody(S, tk)
    ELSE [S |-> S, tk |-> getFreshReviewForm(S, tk, FALSE, TRUE)]

Push(q, t, tk) == IF tk.pc \in ReadyPcs THEN Append(q, t) ELSE q

\* The state after task t has run up to tk with service state S, q being
\* the microtasks that were waiting.  A submission that was just made joins
\* the promise chain (line 591); a section that returned leaves it, which
\* lets the next section start and then resumes the caller.
Proceed(t, S0, tk0, q) ==
    \E S \in {S0} : \E tk \in {tk0} :
    /\ Commit(S)
    /\ started' = IF task[t].pc = "sec_start" THEN Append(started, t) ELSE started
    /\ CASE tk.pc = "returned" ->
              LET rest == Tail(updateMutex)
                  t1 == [task EXCEPT ![t] = [tk EXCEPT !.pc = "settled"]]
              IN  /\ updateMutex' = rest
                  /\ task' = IF rest # <<>>
                             THEN [t1 EXCEPT ![Head(rest)].pc = "sec_start"]
                             ELSE t1
                  /\ microQ' = Append(IF rest # <<>> THEN Append(q, Head(rest)) ELSE q, t)
                  /\ UNCHANGED submitted
         [] tk.pc \in {"sec_start", "queued"} ->
              /\ updateMutex' = Append(updateMutex, t)
              /\ submitted' = Append(submitted, t)
              /\ task' = [task EXCEPT ![t] = tk]
              /\ microQ' = Push(q, t, tk)
         [] OTHER ->
              /\ task' = [task EXCEPT ![t] = IF tk.pc = "done" THEN Finished(tk) ELSE tk]
              /\ microQ' = Push(q, t, tk)
              /\ UNCHANGED <<updateMutex, submitted>>

\* ------------------------------------------------------------------------
\* The hook: call events and the silence monitor
\* ------------------------------------------------------------------------
\* The event loop takes an event, a timer or a fetch answer only when no
\* dispatch loop is running and no continuation is waiting.
Idle == cur = 0 /\ microQ = <<>>

\* Lines 472-529: the three flags are set to a, s and e, and when one of
\* them changes the effect runs again: its cleanup clears the timer, and
\* its body resets the stage or arms the timer.
SetHook(a, s, e) ==
    /\ isCallActive' = a
    /\ isSpeaking' = s
    /\ isToolExecuting' = e
    /\ IF <<a, s, e>> # <<isCallActive, isSpeaking, isToolExecuting>>
       THEN /\ silenceTimer' = (a /\ ~s /\ ~e)
            /\ silenceStage' = IF a /\ ~s /\ ~e THEN silenceStage ELSE 0
       ELSE UNCHANGED <<silenceTimer, silenceStage>>

\* `Participant ${sId}`
ParticipantLabel(sId) ==
    CASE sId = 0 -> "Participant 0"
      [] sId = 1 -> "Participant 1"
      [] sId = 2 -> "Participant 2"
      [] OTHER -> "Participant 3"

SameHook == SetHook(isCallActive, isSpeaking, isToolExecuting)
SameNames == UNCHANGED participantNamesRef
SameSpeakers == UNCHANGED <<speakerMapRef, assignedRolesRef, currentSpeaker, newMessage>>
SameSvc == Commit(Svc)
SameTasks == UNCHANGED <<task, microQ, updateMutex, submitted, started>>
SameLoops == UNCHANGED <<toolCallList, loop, cur, toolOutput, toast>>

\* Lines 531-534: startCall up to the await of fetchEmployeeOKRs.
StartCall ==
    /\ Idle /\ phase = "idle"
    /\ phase' = "starting"
    /\ \E r \in { fetchEmployeeOKRs(Svc, [NoTask EXCEPT !.kind = "start"], FALSE) } :
           Proceed(StartTask, r.S, r.tk, microQ)
    /\ sentStage' = 0
    /\ SameHook /\ SameLoops
    /\ SameNames /\ SameSpeakers
    /\ UNCHANGED <<env, clock, globalReviewIdRef, stopTimer>>

\* Lines 110-118
CallStart ==
    /\ Idle /\ phase = "ringing"
    /\ phase' = "active"
    /\ SetHook(TRUE, isSpeaking, isToolExecuting)
    /\ speakerMapRef' = NoSpeakers
    /\ assignedRolesRef' = <<>>
    /\ sentStage' = 0
    /\ SameSvc /\ SameTasks /\ SameLoops
    /\ SameNames /\ UNCHANGED <<currentSpeaker, newMessage>>
    /\ UNCHANGED <<env, clock, globalReviewIdRef, stopTimer>>

\* Lines 120-134
CallEnd ==
    /\ Idle /\ phase \in {"active", "stopping"}
    /\ phase' = "ended"
    /\ SetHook(FALSE, FALSE, isToolExecuting)
    /\ Commit(clearReviewCache(Svc))
    /\ currentSpeaker' = "Participant"
    /\ sentStage' = 0
    /\ SameTasks /\ SameLoops
    /\ SameNames /\ UNCHANGED <<speakerMapRef, assignedRolesRef, newMessage>>
    /\ UNCHANGED <<env, clock, globalReviewIdRef, stopTimer>>

\* Lines 136-139
SpeechStart ==
    /\ Idle /\ phase = "active" /\ ~isSpeaking
    /\ SetHook(isCallActive, TRUE, isToolExecuting)
    /\ sentStage' = 0
    /\ SameSvc /\ SameTasks /\ SameLoops
    /\ SameNames /\ SameSpeakers
    /\ UNCHANGED <<env, clock, phase, globalReviewIdRef, stopTimer>>

\* Lines 141-144
SpeechEnd ==
    /\ Idle /\ phase = "active" /\ isSpeaking
    /\ SetHook(isCallActive, FALSE, isToolExecuting)
    /\ sentStage' = 0
    /\ SameSvc /\ SameTasks /\ SameLoops
    /\ SameNames /\ SameSpeakers
    /\ UNCHANGED <<env, clock, phase, globalReviewIdRef, stopTimer>>

\* Lines 149-182, 219-224: a final transcript of a participant.  speakerId
\* is UNDEF when the message carries none; the message then keeps the label
\* speakerLabel starts with, the handler's currentSpeaker.  A channel seen for the first time
\* gets the employee name, the manager name or a participant label; the
\* silence timer is cleared and the silence stage is back at 0.
Transcript(speakerId) ==
    /\ Idle /\ phase \in {"active", "stopping"}
    /\ IF speakerId = UNDEF
       THEN /\ UNCHANGED <<speakerMapRef, assignedRolesRef, currentSpeaker>>
            /\ newMessage' = [speakerId |-> UNDEF, speaker |-> ClosureCurrentSpeaker]
       ELSE LET empName == participantNamesRef.employee
                mgrName == participantNamesRef.manager
                assigned == { assignedRolesRef[i] : i \in 1..Len(assignedRolesRef) }
                label == IF speakerMapRef[speakerId] # "" THEN speakerMapRef[speakerId]
                         ELSE IF empName \notin assigned THEN empName
                         ELSE IF mgrName \notin assigned THEN mgrName
                         ELSE ParticipantLabel(speakerId)
            IN  /\ speakerMapRef' = [speakerMapRef EXCEPT ![speakerId] = label]
                /\ assignedRolesRef' =
                       IF speakerMapRef[speakerId] = "" /\ label \in {empName, mgrName}
                       THEN Append(assignedRolesRef, label)
                       ELSE assignedRolesRef
                /\ currentSpeaker' = label
                /\ newMessage' = [speakerId |-> speakerId, speaker |-> label]
    /\ silenceTimer' = FALSE
    /\ silenceStage' = 0
    /\ sentStage' = 0
    /\ SameSvc /\ SameTasks /\ SameLoops
    /\ SameNames
    /\ UNCHANGED <<env, clock, phase, isCallActive, isSpeaking, isToolExecuting,
                   globalReviewIdRef, stopTimer>>

\* A silence timeout that schedules the next timer at every stage.
SilenceTimeoutRearming ==
    /\ Idle /\ silenceTimer
    /\ silenceStage' = silenceStage + 1
    /\ sentStage' = Min(silenceStage + 1, TerminalStage)
    /\ silenceTimer' = TRUE
    /\ SameSvc /\ SameTasks /\ SameLoops
    /\ SameNames /\ SameSpeakers
    /\ UNCHANGED <<env, clock, phase, isCallActive, isSpeaking, isToolExecuting,
                   globalReviewIdRef, stopTimer>>

\* Lines 488-521: the silence timeout fires.
SilenceTimeout ==
    /\ Idle /\ silenceTimer
    /\ silenceStage' = silenceStage + 1
    /\ sentStage' = Min(silenceStage + 1, TerminalStage)
    /\ silenceTimer' = (silenceStage + 1 < TerminalStage)
    /\ SameSvc /\ SameTasks /\ SameLoops
    /\ SameNames /\ SameSpeakers
    /\ UNCHANGED <<env, clock, phase, isCallActive, isSpeaking, isToolExecuting,
                   globalReviewIdRef, stopTimer>>

\* Line 406: the timeout of end_session fires and stops the call.
StopTimeout ==
    /\ Idle /\ stopTimer > 0
    /\ stopTimer' = stopTimer - 1
    /\ phase' = IF phase = "active" THEN "stopping" ELSE phase
    /\ sentStage' = 0
    /\ SameHook /\ SameSvc /\ SameTasks /\ SameLoops
    /\ SameNames /\ SameSpeakers
    /\ UNCHANGED <<env, clock, globalReviewIdRef>>

\* Ten seconds pass.
Tick ==
    /\ Idle /\ clock < StartClock + MaxClock
    /\ clock' = clock + 1
    /\ sentStage' = 0
    /\ SameHook /\ SameSvc /\ SameTasks /\ SameLoops
    /\ SameNames /\ SameSpeakers
    /\ UNCHANGED <<env, phase, globalReviewIdRef, stopTimer>>

\* ------------------------------------------------------------------------
\* The tool-call dispatcher: onMessage for a tool-calls message
\* ------------------------------------------------------------------------
\* The tool-calls messages of the model: the first MaxLen tool calls of
\* each script.
Take(s, n) == SubSeq(s, 1, Min(n, Len(s)))

DispatchLists ==
    { Take(s, MaxLen) : s \in { <<SubmitSelf, EndSession, UpdateKr>>,
                                <<UpdateKr, RateComp, SubmitSelf>>,
                                <<BadJson, EndSession, RateComp>>,
                                <<NullRating, UnknownTool, SubmitSelf>>,
                                <<NullSubmit, RateComp, UnknownTool>> } }

Running(b) == cur = b /\ loop[b].pc = "run" /\ loop[b].i <= Len(toolCallList[b])
ThisCall(b) == toolCallList[b][loop[b].i]
ThisId(b) == CallId(b, loop[b].i)
NextCall(b) == [loop EXCEPT ![b] = [pc |-> "run", i |-> @.i + 1]]

\* Lines 267-269: a tool-calls message arrives and its loop starts.
ToolCallsMessage(b, list) ==
    /\ Idle /\ phase = "active"
    /\ loop[b].pc = "none" /\ \A a \in 1..(b - 1) : loop[a].pc # "none"
    /\ toolCallList' = [toolCallList EXCEPT ![b] = list]
    /\ loop' = [loop EXCEPT ![b] = [pc |-> "run", i |-> 1]]
    /\ cur' = b
    /\ SetHook(isCallActive, isSpeaking, TRUE)
    /\ sentStage' = 0
    /\ SameSvc /\ SameTasks
    /\ SameNames /\ SameSpeakers
    /\ UNCHANGED <<env, clock, phase, globalReviewIdRef, stopTimer, toolOutput, toast>>

\* Lines 274-276: JSON.parse throws on arguments that are not JSON; the
\* exception leaves onMessage.
LoopParseError(b) ==
    /\ Running(b) /\ ThisCall(b).argk = "badjson"
    /\ loop' = [loop EXCEPT ![b].pc = "threw"]
    /\ cur' = 0
    /\ sentStage' = 0
    /\ SameHook /\ SameSvc /\ SameTasks
    /\ SameNames /\ SameSpeakers
    /\ UNCHANGED <<env, clock, phase, globalReviewIdRef, stopTimer, toolCallList,
                   toolOutput, toast>>

\* A dispatcher that starts the background task without acknowledging first.
LoopAckOmitted(b) ==
    /\ Running(b) /\ ThisCall(b).argk = "obj" /\ ThisCall(b).name \in FireAndForget
    /\ loop' = [loop EXCEPT ![b].pc = "spawn"]
    /\ sentStage' = 0
    /\ SameHook /\ SameSvc /\ SameTasks
    /\ SameNames /\ SameSpeakers
    /\ UNCHANGED <<env, clock, phase, globalReviewIdRef, stopTimer, toolCallList, cur,
                   toolOutput, toast>>

\* Lines 284-297: the acknowledgement of a fire-and-forget tool.
LoopAck(b) ==
    /\ Running(b) /\ ThisCall(b).argk = "obj" /\ ThisCall(b).name \in FireAndForget
    /\ toolOutput' = [toolOutput EXCEPT ![ThisId(b)] = Append(@, "SUCCESS")]
    /\ loop' = [loop EXCEPT ![b].pc = "spawn"]
    /\ sentStage' = 0
    /\ SameHook /\ SameSvc /\ SameTasks
    /\ SameNames /\ SameSpeakers
    /\ UNCHANGED <<env, clock, phase, globalReviewIdRef, stopTimer, toolCallList, cur, toast>>

\* Lines 762-811: updateKeyResult up to its return or its await.
updateKeyResult(S, tk, id, value) ==
    The({ IF env = "sim"
          THEN [S |-> KeyResultSimulated(S1, id, value),
                tk |-> [tk EXCEPT !.pc = "settled", !.result = "true"]]
          ELSE [S |-> S1, tk |-> [tk EXCEPT !.pc = "kr_net"]] :
          S1 \in { IF S.form.shape # "null" THEN KeyResultOptimistic(S, id, value) ELSE S } })

\* Lines 300-393: the background task starts and runs to its first await;
\* the loop goes on to the next tool call.
LoopSpawn(b) ==
    /\ cur = b /\ loop[b].pc = "spawn"
    /\ LET c == ThisId(b)
           a == ThisCall(b).args
           targetId == TargetIdOf(a, globalReviewIdRef)
       IN  \E r \in { IF ThisCall(b).name = "update_key_result"
                       THEN updateKeyResult(Svc, [NoTask EXCEPT !.kind = "ukr"],
                                            a.id, a.value)
                       ELSE IF targetId \in {"", "unknown"}
                       THEN [S |-> Svc,
                             tk |-> getFreshReviewForm(Svc, [NoTask EXCEPT !.kind = "uor"],
                                                       FALSE, FALSE)]
                       ELSE submitEmployeeSelfAssessment(
                                Svc, [NoTask EXCEPT !.kind = "uor"],
                                BuildUpdateData(a, targetId, participantNamesRef.employee), FALSE) } :
               Proceed(c, r.S, r.tk, microQ)
    /\ loop' = NextCall(b)
    /\ sentStage' = 0
    /\ SameHook
    /\ SameNames /\ SameSpeakers
    /\ UNCHANGED <<env, clock, phase, globalReviewIdRef, stopTimer, toolCallList, cur,
                   toolOutput, toast>>

\* Lines 288-290 and 417-433: null arguments make the confirmation message
\* throw; the catch acknowledges the error.
LoopArgsError(b) ==
    /\ Running(b) /\ ThisCall(b).argk = "null" /\ ThisCall(b).name \in FireAndForget
    /\ toolOutput' = [toolOutput EXCEPT ![ThisId(b)] = Append(@, "Error")]
    /\ toast' = [toast EXCEPT ![ThisId(b)] = Append(@, "Tool Execution Error")]
    /\ loop' = NextCall(b)
    /\ sentStage' = 0
    /\ SameHook /\ SameSvc /\ SameTasks
    /\ SameNames /\ SameSpeakers
    /\ UNCHANGED <<env, clock, phase, globalReviewIdRef, stopTimer, toolCallList, cur>>

\* A dispatcher that starts a submit tool and goes on without awaiting it.
LoopSubmitNoAwait(b) ==
    /\ Running(b) /\ ThisCall(b).argk # "badjson" /\ ThisCall(b).name \in BlockingSubmit
    /\ \E r \in { submitEmployeeSelfAssessment(Svc, [NoTask EXCEPT !.kind = "submit"],
                    ThisCall(b).args.data, ThisCall(b).argk = "null") } :
           Proceed(ThisId(b), r.S, r.tk, microQ)
    /\ loop' = NextCall(b)
    /\ sentStage' = 0
    /\ SameHook
    /\ SameNames /\ SameSpeakers
    /\ UNCHANGED <<env, clock, phase, globalReviewIdRef, stopTimer, toolCallList, cur,
                   toolOutput, toast>>

\* Lines 396-403: a submit tool is called and awaited.
LoopSubmit(b) ==
    /\ Running(b) /\ ThisCall(b).argk # "badjson" /\ ThisCall(b).name \in BlockingSubmit
    /\ \E r \in { submitEmployeeSelfAssessment(Svc, [NoTask EXCEPT !.kind = "submit"],
                    ThisCall(b).args.data, ThisCall(b).argk = "null") } :
           Proceed(ThisId(b), r.S, r.tk, microQ)
    /\ loop' = [loop EXCEPT ![b].pc = "await"]
    /\ cur' = 0
    /\ sentStage' = 0
    /\ SameHook
    /\ SameNames /\ SameSpeakers
    /\ UNCHANGED <<env, clock, phase, globalReviewIdRef, stopTimer, toolCallList,
                   toolOutput, toast>>

\* Lines 404-406 and 411-415
LoopEndSession(b) ==
    /\ Running(b) /\ ThisCall(b).argk # "badjson" /\ ThisCall(b).name = "end_session"
    /\ toolOutput' = [toolOutput EXCEPT ![ThisId(b)] = Append(@, "Ending session.")]
    /\ stopTimer' = stopTimer + 1
    /\ loop' = NextCall(b)
    /\ sentStage' = 0
    /\ SameHook /\ SameSvc /\ SameTasks
    /\ SameNames /\ SameSpeakers
    /\ UNCHANGED <<env, clock, phase, globalReviewIdRef, toolCallList, cur, toast>>

\* Lines 407-415
LoopUnknown(b) ==
    /\ Running(b) /\ ThisCall(b).argk # "badjson"
    /\ ThisCall(b).name \notin FireAndForget \cup Blocking
    /\ toolOutput' = [toolOutput EXCEPT ![ThisId(b)] = Append(@, "Unknown tool")]
    /\ loop' = NextCall(b)
    /\ sentStage' = 0
    /\ SameHook /\ SameSvc /\ SameTasks
    /\ SameNames /\ SameSpeakers
    /\ UNCHANGED <<env, clock, phase, globalReviewIdRef, stopTimer, toolCallList, cur, toast>>

\* Line 435: the loop is over.
LoopFinish(b) ==
    /\ cur = b /\ loop[b].pc = "run" /\ loop[b].i > Len(toolCallList[b])
    /\ loop' = [loop EXCEPT ![b].pc = "done"]
    /\ cur' = 0
    /\ SetHook(isCallActive, isSpeaking, FALSE)
    /\ sentStage' = 0
    /\ SameSvc /\ SameTasks
    /\ SameNames /\ SameSpeakers
    /\ UNCHANGED <<env, clock, phase, globalReviewIdRef, stopTimer, toolCallList,
                   toolOutput, toast>>

\* ------------------------------------------------------------------------
\* Continuations: the task at the head of the microtask queue resumes
\* ------------------------------------------------------------------------
Resumes(t) == cur = 0 /\ microQ # <<>> /\ Head(microQ) = t

FrameOfTask ==
    /\ sentStage' = 0
    /\ SameHook /\ SameLoops
    /\ SameNames /\ SameSpeakers
    /\ UNCHANGED <<env, clock, phase, globalReviewIdRef, stopTimer>>

\* Lines 534-537: startCall after the objectives, calling the forced fetch.
RunStartForm ==
    /\ Resumes(StartTask) /\ task[StartTask].pc = "okrs_ret"
    /\ Proceed(StartTask, Svc, getFreshReviewForm(Svc, task[StartTask], TRUE, FALSE),
               Tail(microQ))
    /\ FrameOfTask

\* Lines 212-215 and 288-294: the mock form is returned and cached.
RunFormMock(t) ==
    /\ Resumes(t) /\ task[t].pc \in {"form_mock", "sec_form_mock"}
    /\ \E S1 \in { FreshArrived(Svc, mockForm, task[t].now) } :
           Proceed(t, S1,
                   [task[t] EXCEPT !.pc = IF @ = "form_mock" THEN "form_ret"
                                          ELSE "sec_form_ret",
                                   !.fetched = "ok", !.ret = S1.form],
                   Tail(microQ))
    /\ FrameOfTask

\* Lines 540-566: startCall keeps the review id and the two names it was
\* called with, and starts the call.
StartDone(employeeInputName, managerInputName) ==
    /\ Resumes(StartTask) /\ task[StartTask].pc = "form_ret"
    /\ globalReviewIdRef' = IF FirstReviewId(task[StartTask].ret) # ""
                            THEN FirstReviewId(task[StartTask].ret)
                            ELSE globalReviewIdRef
    /\ participantNamesRef' = [employee |-> JsOr(employeeInputName, "Employee"),
                               manager |-> JsOr(managerInputName, "Manager")]
    /\ phase' = "ringing"
    /\ Proceed(StartTask, Svc, [task[StartTask] EXCEPT !.pc = "done"], Tail(microQ))
    /\ sentStage' = 0
    /\ SameHook /\ SameLoops
    /\ SameSpeakers
    /\ UNCHANGED <<env, clock, stopTimer>>

\* startCall for the employee Ravi and the manager Meera.
RunStartDone == StartDone(EmployeeName, ManagerName)

\* Lines 331-378: the background task of update_okr_rating after the form,
\* up to the await of its submission.
RunRatingSubmit(c) ==
    /\ Resumes(c) /\ task[c].kind = "uor" /\ task[c].pc = "form_ret"
    /\ LET found == FirstReviewId(task[c].ret)
           targetId == IF found # "" THEN found
                       ELSE TargetIdOf(CallOf(c).args, globalReviewIdRef)
       IN  /\ globalReviewIdRef' = IF found # "" THEN found ELSE globalReviewIdRef
           /\ \E r \in { submitEmployeeSelfAssessment(Svc, Resumed(task[c]),
                              BuildUpdateData(CallOf(c).args, targetId, participantNamesRef.employee),
                              FALSE) } :
                  Proceed(c, r.S, r.tk, Tail(microQ))
    /\ sentStage' = 0
    /\ SameHook /\ SameLoops
    /\ SameNames /\ SameSpeakers
    /\ UNCHANGED <<env, clock, phase, stopTimer>>

\* Report.tsx lines 74 and 115: a view has its answer.
RunViewDone(u) ==
    /\ Resumes(u) /\ u \in UiTasks /\ task[u].pc \in {"form_ret", "okrs_ret"}
    /\ Proceed(u, Svc, [task[u] EXCEPT !.pc = "done"], Tail(microQ))
    /\ FrameOfTask

\* Lines 591-595: a queued section starts.
RunSectionStart(t) ==
    /\ Resumes(t) /\ task[t].pc = "sec_start"
    /\ \E r \in { IF okrCache = <<>>
                THEN fetchEmployeeOKRs(Svc, task[t], TRUE)
                ELSE SectionForm(Svc, task[t]) } :
           Proceed(t, r.S, r.tk, Tail(microQ))
    /\ FrameOfTask

\* Line 595, after the objectives were fetched.
RunSectionForm(t) ==
    /\ Resumes(t) /\ task[t].pc = "sec_okrs_ret"
    /\ \E r \in { SectionForm(Svc, task[t]) } :
           Proceed(t, r.S, r.tk, Tail(microQ))
    /\ FrameOfTask

\* Lines 596-699, after the form was fetched.
RunSectionBody(t) ==
    /\ Resumes(t) /\ task[t].pc = "sec_form_ret"
    /\ \E r \in { SectionBody(Svc, Resumed(task[t])) } :
           Proceed(t, r.S, r.tk, Tail(microQ))
    /\ FrameOfTask

\* Lines 305-313 and 377-391: the background task has its result.
RunBackgroundDone(c) ==
    /\ Resumes(c) /\ task[c].kind \in {"ukr", "uor"} /\ task[c].pc = "settled"
    /\ toast' = [toast EXCEPT ![c] =
                    IF task[c].result = "true"
                    THEN Append(@, IF task[c].kind = "ukr" THEN "OKR Updated"
                                   ELSE "Review Updated")
                    ELSE @]
    /\ Proceed(c, Svc, [task[c] EXCEPT !.pc = "done"], Tail(microQ))
    /\ sentStage' = 0
    /\ SameHook
    /\ SameNames /\ SameSpeakers
    /\ UNCHANGED <<env, clock, phase, globalReviewIdRef, stopTimer, toolCallList, loop,
                   cur, toolOutput>>

\* Lines 398-433: the awaited submit tool has its result and the loop goes on.
RunLoopResume(c) ==
    /\ Resumes(c) /\ task[c].kind = "submit" /\ task[c].pc = "settled"
    /\ toolOutput' = [toolOutput EXCEPT ![c] =
                         Append(@, CASE task[c].result = "true" -> "Success"
                                     [] task[c].result = "false" -> "Failed"
                                     [] OTHER -> "Error")]
    /\ toast' = [toast EXCEPT ![c] =
                    IF task[c].result = "threw" THEN Append(@, "Tool Execution Error")
                    ELSE @]
    /\ loop' = NextCall(BatchOf(c))
    /\ cur' = BatchOf(c)
    /\ Proceed(c, Svc, [task[c] EXCEPT !.pc = "done"], Tail(microQ))
    /\ sentStage' = 0
    /\ SameHook
    /\ SameNames /\ SameSpeakers
    /\ UNCHANGED <<env, clock, phase, globalReviewIdRef, stopTimer, toolCallList>>

\* ------------------------------------------------------------------------
\* Answers of the backend
\* ------------------------------------------------------------------------
\* Lines 163-203
OkrsResponse(t, ok) ==
    /\ Idle /\ task[t].pc \in {"okrs_net", "sec_okrs_net"}
    /\ Proceed(t, OkrsArrived(Svc, ok),
               [task[t] EXCEPT !.pc = IF @ = "okrs_net" THEN "okrs_ret" ELSE "sec_okrs_ret"],
               microQ)
    /\ FrameOfTask

\* Lines 239-276 and 288-294: the review endpoint answers with the form
\* fresh, NoForm standing for a failed fetch.
FormAnswer(t, fresh) ==
    /\ Idle /\ task[t].pc \in {"form_net", "sec_form_net"}
    /\ \E S1 \in { FreshArrived(Svc, fresh, task[t].now) } :
           Proceed(t, S1,
                   [task[t] EXCEPT !.pc = IF @ = "form_net" THEN "form_ret"
                                          ELSE "sec_form_ret",
                                   !.fetched = IF fresh # NoForm THEN "ok" ELSE "failed",
                                   !.ret = S1.form],
                   microQ)
    /\ FrameOfTask

FormResponse(t, ok) == FormAnswer(t, IF ok THEN BackendForm ELSE NoForm)

\* The answer to the submission request without the catch of line 745: a
\* rejected request ends the section without a result.
SubmitResponseUncaught(t, outcome) ==
    /\ Idle /\ task[t].pc = "sec_req_net"
    /\ CASE outcome = "ok" ->
              Proceed(t, SubmitAccepted(Svc, task[t].data),
                      [task[t] EXCEPT !.pc = "returned", !.result = "true",
                                      !.reqs[1][2] = outcome], microQ)
         [] outcome = "notok" /\ task[t].method = "PUT" ->
              Proceed(t, Svc, [task[t] EXCEPT !.pc = "sec_post_net",
                                              !.reqs = << <<"PUT", outcome>>,
                                                          <<"POST", "sent">> >>], microQ)
         [] outcome = "notok" ->
              Proceed(t, Svc, [task[t] EXCEPT !.pc = "returned", !.result = "false",
                                              !.reqs[1][2] = outcome], microQ)
         [] OTHER ->
              Proceed(t, Svc, [task[t] EXCEPT !.pc = "rejected",
                                              !.reqs[1][2] = outcome], microQ)
    /\ FrameOfTask

\* Lines 701-748: the answer to the submission request.
SubmitResponse(t, outcome) ==
    /\ Idle /\ task[t].pc = "sec_req_net"
    /\ CASE outcome = "ok" ->
              Proceed(t, SubmitAccepted(Svc, task[t].data),
                      [task[t] EXCEPT !.pc = "returned", !.result = "true",
                                      !.reqs[1][2] = outcome], microQ)
         [] outcome = "notok" /\ task[t].method = "PUT" ->
              Proceed(t, Svc, [task[t] EXCEPT !.pc = "sec_post_net",
                                              !.reqs = << <<"PUT", outcome>>,
                                                          <<"POST", "sent">> >>], microQ)
         [] OTHER ->
              Proceed(t, Svc, [task[t] EXCEPT !.pc = "returned", !.result = "false",
                                              !.reqs[1][2] = outcome], microQ)
    /\ FrameOfTask

\* Lines 720-743: the answer to the fallback POST.
PostResponse(t, outcome) ==
    /\ Idle /\ task[t].pc = "sec_post_net"
    /\ IF outcome = "ok"
       THEN Proceed(t, SubmitAccepted(Svc, task[t].data),
                    [task[t] EXCEPT !.pc = "returned", !.result = "true",
                                    !.reqs[2][2] = outcome], microQ)
       ELSE Proceed(t, Svc, [task[t] EXCEPT !.pc = "returned", !.result = "false",
                                            !.reqs[2][2] = outcome], microQ)
    /\ FrameOfTask

\* Lines 813-825: the answer to the key-result PUT.
KeyResultResponse(c, outcome) ==
    /\ Idle /\ task[c].pc = "kr_net"
    /\ IF outcome = "ok"
       THEN Proceed(c, KeyResultAccepted(Svc, CallOf(c).args.id, CallOf(c).args.value),
                    [task[c] EXCEPT !.pc = "settled", !.result = "true"], microQ)
       ELSE Proceed(c, Svc, [task[c] EXCEPT !.pc = "settled", !.result = "false"], microQ)
    /\ FrameOfTask

\* ------------------------------------------------------------------------
\* The views
\* ------------------------------------------------------------------------
NextView(u) == u \in UiTasks /\ task[u].kind = "none" /\ \A v \in UiTasks : v > u => task[v].kind # "none"

\* Report.tsx line 74: loadData asks for the review form.
ViewGetFresh(u) ==
    /\ Idle /\ NextView(u)
    /\ Proceed(u, Svc, getFreshReviewForm(Svc, [NoTask EXCEPT !.kind = "fresh"], FALSE, FALSE),
               microQ)
    /\ FrameOfTask

\* Report.tsx line 115: loadData asks for the objectives.
ViewFetchOkrs(u) ==
    /\ Idle /\ NextView(u)
    /\ \E r \in { fetchEmployeeOKRs(Svc, [NoTask EXCEPT !.kind = "okrs"], FALSE) } :
           Proceed(u, r.S, r.tk, microQ)
    /\ FrameOfTask

Outcomes == {"ok", "notok", "reject"}

\* The steps of the asynchronous operations tool calls start.
TaskStep ==
    \/ \E t \in TaskIds :
          \/ RunFormMock(t) \/ RunSectionStart(t) \/ RunSectionForm(t) \/ RunSectionBody(t)
    \/ \E c \in CallIds : RunRatingSubmit(c) \/ RunBackgroundDone(c) \/ RunLoopResume(c)
    \/ \E t \in TaskIds : \E ok \in BOOLEAN : OkrsResponse(t, ok) \/ FormResponse(t, ok)
    \/ \E t \in TaskIds : \E o \in Outcomes :
          SubmitResponse(t, o) \/ PostResponse(t, o) \/ KeyResultResponse(t, o)

LoopStep ==
    \E b \in Batches :
        \/ LoopParseError(b) \/ LoopAck(b) \/ LoopSpawn(b) \/ LoopArgsError(b)
        \/ LoopSubmit(b) \/ LoopEndSession(b) \/ LoopUnknown(b) \/ LoopFinish(b)

\* The dispatcher and the submissions: a call, its tool-calls messages and
\* the operations they start.
NextDispatch ==
    \/ StartCall \/ RunStartForm \/ RunStartDone \/ CallStart \/ CallEnd \/ StopTimeout
    \/ \E b \in Batches : \E list \in DispatchLists : ToolCallsMessage(b, list)
    \/ LoopStep
    \/ TaskStep

SpecDispatch == Init /\ [][NextDispatch]_vars

\* One submission against a cache of several records.
SubmitLists ==
    { << SubmitFor(id, name, empId) >> :
      id \in {"", "R2", "zz"}, name \in {"", "Ravi", "Meera"}, empId \in {"", "e1", "e9"} }

NextSubmit ==
    \/ StartCall \/ RunStartForm \/ RunStartDone \/ CallStart
    \/ \E ok \in BOOLEAN : OkrsResponse(StartTask, ok)
    \/ RunFormMock(StartTask)
    \/ \E fresh \in ArrayForms : FormAnswer(StartTask, fresh)
    \/ \E list \in SubmitLists : ToolCallsMessage(1, list)
    \/ LoopSubmit(1) \/ LoopFinish(1)
    \/ \E c \in CallIds : RunSectionStart(c) \/ RunLoopResume(c)
    \/ \E c \in CallIds : \E o \in Outcomes : SubmitResponse(c, o) \/ PostResponse(c, o)

SpecSubmit == Init /\ [][NextSubmit]_vars

\* The session cache: the call and the views that read the cache, with time.
NextCache ==
    \/ StartCall \/ RunStartForm \/ RunStartDone \/ CallStart \/ CallEnd \/ Tick
    \/ \E u \in UiTasks : ViewGetFresh(u) \/ ViewFetchOkrs(u) \/ RunViewDone(u)
    \/ \E t \in TaskIds : RunFormMock(t)
    \/ \E t \in TaskIds : \E ok \in BOOLEAN : OkrsResponse(t, ok) \/ FormResponse(t, ok)

SpecCache == Init /\ [][NextCache]_vars

\* The start of a call with the names of the form, and the transcripts
\* of its participants.
NameInputs == {"", "Ravi", "Meera"}

NextSpeakers ==
    \/ StartCall \/ RunStartForm \/ CallStart \/ CallEnd
    \/ \E ok \in BOOLEAN : OkrsResponse(StartTask, ok) \/ FormResponse(StartTask, ok)
    \/ RunFormMock(StartTask)
    \/ \E e \in NameInputs, m \in NameInputs : StartDone(e, m)
    \/ \E sp \in SpeakerIds \cup {UNDEF} : Transcript(sp)
    \/ SpeechStart \/ SpeechEnd \/ SilenceTimeout

SpecSpeakers == Init /\ [][NextSpeakers]_vars

\* The whole program.
Next ==
    \/ NextDispatch
    \/ \E e \in NameInputs, m \in NameInputs : StartDone(e, m)
    \/ \E sp \in SpeakerIds \cup {UNDEF} : Transcript(sp)
    \/ SpeechStart \/ SpeechEnd \/ SilenceTimeout \/ Tick
    \/ \E u \in UiTasks : ViewGetFresh(u) \/ ViewFetchOkrs(u) \/ RunViewDone(u)

Spec == Init /\ [][Next]_vars

\* ------------------------------------------------------------------------
\* Properties of the dispatcher and of the submission queue
\* ------------------------------------------------------------------------
ActivePcs == {"run", "spawn", "await"}
Handled(c) == toolOutput[c] # <<>> \/ task[c].kind # "none"
InSection(t) == task[t].pc \in SectionPcs \ {"sec_start"}
Pairs(b) == { <<i, j>> \in (1..Len(toolCallList[b])) \X (1..Len(toolCallList[b])) : i < j }

\* C1: within a batch a tool call is handled only after every earlier one
\* of the batch, and after the acknowledgement of every earlier blocking one.
C1_ListOrder ==
    \A b \in Batches : \A p \in Pairs(b) :
        Handled(CallId(b, p[2]))
            => /\ Handled(CallId(b, p[1]))
               /\ toolCallList[b][p[1]].name \in Blocking
                     => toolOutput[CallId(b, p[1])] # <<>>

C1_Witness ==
    \E b \in Batches : \E p \in Pairs(b) :
        /\ toolCallList[b][p[1]].name \in BlockingSubmit
        /\ task[CallId(b, p[1])].result \in {"true", "false"}
        /\ Handled(CallId(b, p[2]))

\* C2: at most one dispatch loop is between its start and its end at a time.
C2_SingleLoop == Cardinality({ b \in Batches : loop[b].pc \in ActivePcs }) <= 1

\* C3: isToolExecuting is true as long as a dispatch loop has not ended.
C3_BusyWhileLoop == \A b \in Batches : loop[b].pc \in ActivePcs => isToolExecuting

\* C4: a dispatch loop that has stopped has acknowledged every tool call of
\* its batch, a malformed one with an error text and a toast.
C4_EveryCallAnswered ==
    \A b \in Batches :
        loop[b].pc \notin ActivePcs
            => \A i \in 1..Len(toolCallList[b]) :
                  /\ toolOutput[CallId(b, i)] # <<>>
                  /\ toolCallList[b][i].argk # "obj" /\ toolCallList[b][i].name \notin BlockingSubmit
                        => toast[CallId(b, i)] # <<>>

\* C5: the background task of a fire-and-forget tool exists only after the
\* success acknowledgement of its call, and a dispatch loop waits for
\* nothing but a submit tool.
C5_AckBeforePersistence ==
    /\ \A c \in CallIds : task[c].kind \in {"ukr", "uor"} => toolOutput[c] = <<"SUCCESS">>
    /\ \A b \in Batches : loop[b].pc = "await" => ThisCall(b).name \in BlockingSubmit

C5_Witness ==
    \E c \in CallIds :
        /\ task[c].kind \in {"ukr", "uor"}
        /\ task[c].pc \in {"kr_net", "sec_req_net"}
        /\ loop[BatchOf(c)].pc = "done"

\* C6: a background task that ended in failure has raised a toast.
C6_FailureToast ==
    \A c \in CallIds :
        task[c].kind \in {"ukr", "uor"} /\ task[c].pc = "done" /\ task[c].result # "true"
            => toast[c] # <<>>

\* C7: at most one queued section is running at a time, and the sections
\* have started in the order the submissions were made.
C7_Serialised ==
    /\ Cardinality({ t \in TaskIds : InSection(t) }) <= 1
    /\ Len(started) <= Len(submitted)
    /\ \A i \in 1..Len(started) : started[i] = submitted[i]

C7_Witness ==
    /\ Len(started) = 2
    /\ InSection(started[2])
    /\ task[started[1]].pc \in {"settled", "done"}

\* ------------------------------------------------------------------------
\* Properties of the session cache
\* ------------------------------------------------------------------------
FormPcs ==
    {"form_net", "form_mock", "form_ret", "sec_form_net", "sec_form_mock", "sec_form_ret"}
RetPcs == {"form_ret", "sec_form_ret"}

C9_ClearedEverywhere ==
    [][(phase # "ended" /\ phase' = "ended")
          => /\ cachedReviewForm' = NoForm
             /\ ssReview' = AbsentForm
             /\ ssOkr' = AbsentList
             /\ okrCache' = <<>>]_vars

\* A step in which a fetch of the form or of the objectives came back.
FetchArrives ==
    \E t \in TaskIds :
        \/ task[t].fetched = "pending" /\ task'[t].fetched # "pending"
        \/ task[t].pc \in {"okrs_net", "okrs_mock", "sec_okrs_net", "sec_okrs_mock"}
             /\ task'[t].pc # task[t].pc

\* C10: a step of a write that changes the cached form or the cached
\* objectives dispatches review-data-updated, and when the event is
\* dispatched the per-tab storage already holds what the step put in the
\* cache.
C10_EventAfterPersist ==
    [][/\ (/\ ~FetchArrives
           /\ phase' = phase
           /\ \/ cachedReviewForm' # cachedReviewForm
              \/ okrCache' # okrCache)
          => evt' > 0
       /\ evt' > 0
          => /\ cachedReviewForm' # cachedReviewForm => ssReview' = Stored(cachedReviewForm')
             /\ okrCache' # okrCache => ssOkr' = Stored(okrCache')]_vars

\* ------------------------------------------------------------------------
\* Properties of the persisted copies
\* ------------------------------------------------------------------------
\* Lines 46-47: what a reload of the page reads back from per-tab storage.
ReloadOkrs(item) == IF item.present THEN item.value ELSE <<>>
ReloadForm(item) == IF item.present THEN item.value ELSE NoForm

\* C11: a step that changes the cached form or the cached objectives leaves
\* in per-tab storage what a reload needs to recover the new value.
C11_ReloadRecovers ==
    [][/\ cachedReviewForm' # cachedReviewForm => ReloadForm(ssReview') = cachedReviewForm'
       /\ okrCache' # okrCache => ReloadOkrs(ssOkr') = okrCache']_vars

\* ------------------------------------------------------------------------
\* Properties of a submission
\* ------------------------------------------------------------------------
\* C12: the queued section resolves its target among the cached records by
\* identifier; when no identifier matches, by employee-name substring; when
\* no name matches either, by employee identifier; and otherwise takes a
\* most recently created record.  A submission settles with a boolean.
C12_TargetResolution ==
    [][\A t \in TaskIds :
          /\ (task[t].target = "" /\ task'[t].target # "")
                => LET rs == cachedReviewForm.reviews
                       d == task[t].data
                       Rec == { rs[i] : i \in 1..Len(rs) }
                       ById == { r \in Rec :
                                   d.id # "" /\ LowerTrim(r._id) = LowerTrim(d.id) }
                       ByName == { r \in Rec :
                                   /\ d.employeeFullName # ""
                                   /\ StrIncludes(normalizeString(r.employeeFullName),
                                                  normalizeString(d.employeeFullName)) }
                       ByEmp == { r \in Rec :
                                   /\ d.employeeId # ""
                                   /\ LowerTrim(r.employeeId) = LowerTrim(d.employeeId) }
                       Newest == { r \in Rec : \A q \in Rec : q.createdAt <= r.createdAt }
                       Chosen == IF ById # {} THEN ById
                                 ELSE IF ByName # {} THEN ByName
                                 ELSE IF ByEmp # {} THEN ByEmp
                                 ELSE Newest
                   IN  \E r \in Chosen : r._id = task'[t].target
          /\ (task'[t].kind = "submit" /\ task'[t].pc = "settled")
                => task'[t].result \in {"true", "false"}
    ]_vars

\* A submission that matches no record by identifier, name or employee
\* identifier has taken the most recently created record, which is not the
\* first of the cached array.
C12_Witness ==
    \E t \in TaskIds :
        /\ task[t].target = "r3"
        /\ task[t].data.id = "zz"
        /\ task[t].data.employeeFullName = "Meera"
        /\ task[t].data.employeeId = "e9"

\* C13: a submission whose section has returned has issued at most two
\* requests, a PUT or a POST first and a POST after a PUT that was answered
\* with a failure status, and its result is true exactly when one of the
\* requests was accepted.
C13_RemoteRequests ==
    \A t \in TaskIds :
        (task[t].kind \in {"submit", "uor"} /\ task[t].pc = "settled"
         /\ task[t].result \in {"true", "false"})
        => LET reqs == task[t].reqs
           IN  /\ Len(reqs) <= 2
               /\ Len(reqs) = 2 => reqs[1] = <<"PUT", "notok">> /\ reqs[2][1] = "POST"
               /\ (Len(reqs) >= 1 /\ reqs[1] = <<"PUT", "notok">>) => Len(reqs) = 2
               /\ (task[t].result = "true") <=> (\E i \in 1..Len(reqs) : reqs[i][2] = "ok")

\* ------------------------------------------------------------------------
\* The reconciliation engine on its own: a record, the source objectives
\* and a sequence of update payloads, each call given the result of the
\* call before it.
\* ------------------------------------------------------------------------
MaxApply == 3       \* calls of the engine in a row

\* Source objectives in okrCache: none, the mock list, and one objective
\* with two key results.
EngineOkrs ==
    { <<>>,
      MOCK_OKRS,
      << [_id |-> "o1", objective |-> "Increase Revenue", weight |-> 100,
          progressStatus |-> 0,
          children |-> << [_id |-> "k1", keyResultName |-> "Hire 10 new team members",
                           target |-> 10, actual |-> 0],
                          [_id |-> "k5", keyResultName |-> "Open 4 offices",
                           target |-> 4, actual |-> 0] >>] >> }

\* Records given to the engine: one without goals and competencies, one
\* with rated goals and the roster, and one whose weights add up to 200,
\* with a key result without target and a competency outside the roster.
EngineRecords ==
    LET Kr(id, name, target, actual, er, mr) ==
            [_id |-> id, keyResultName |-> name, target |-> target, actual |-> actual,
             employeeRating |-> er, managerRating |-> mr,
             employeeFeedback |-> "", managerFeedback |-> ""]
        Goal(id, name, weight, er, mr, children) ==
            [_id |-> id, objective |-> name, weight |-> weight, progressStatus |-> 0,
             employeeRating |-> er, managerRating |-> mr,
             employeeFeedback |-> "", managerFeedback |-> "", children |-> children]
        Comp(name, type, rating) ==
            [competencyName |-> name, type |-> type, Feedback |-> rating,
             Comments |-> "", comments |-> ""]
        Fresh == NewReview("r1", "Ravi K", "e1", 1)
    IN  { Fresh,
          [Fresh EXCEPT
             !.goals = << Goal("o1", "Increase Revenue", 50, 4, 3,
                               << Kr("k1", "Hire 10 new team members", 10, 8, 0, 0) >>),
                          Goal("o2", "Expand Customer Success Team", 50, 0, 0,
                               << Kr("k2", "Increase Sales by 30% compared to last year",
                                     10, 6, 5, 0) >>) >>,
             !.competencies = RosterEntries],
          [Fresh EXCEPT
             !.goals = << Goal("o1", "Increase Revenue", 100, 0, 0,
                               << Kr("k1", "Hire 10 new team members", 10, 12, 0, 0) >>),
                          Goal("o3", "Retain Customers", 100, 0, 0,
                               << Kr("k3", "Renew contracts", 0, 5, 0, 0),
                                  Kr("k4", "Visit clients", 10, 10, 0, 0) >>) >>,
             !.competencies = << Comp("Teamwork", "employee", 2),
                                 Comp("Teamwork", "manager", 0) >>] }

\* Update payloads: key-result updates by id and by name, objective
\* ratings, competency ratings with roster names and other names, one of
\* them with a comment, the empty payload of a synchronisation, and a
\* payload in which every list starts with an entry for an item that no
\* record has.
EnginePayloads ==
    LET Krs(us) == [NoPayload EXCEPT !.keyResultReviews = us]
        Objs(us) == [NoPayload EXCEPT !.objectiveReviews = us]
        Comps(us) == [NoPayload EXCEPT !.competencyReviews = us]
    IN  { NoPayload,
          Krs(<< KrReview("k1", "", 0, UNDEF, UNDEF) >>),
          Krs(<< KrReview("k1", "", 5, UNDEF, UNDEF) >>),
          Krs(<< KrReview("k1", "", 10, UNDEF, UNDEF) >>),
          Krs(<< KrReview("k5", "", 4, UNDEF, UNDEF) >>),
          Krs(<< KrReview("", "Increase Sales by 30% compared to last year",
                          UNDEF, 5, 2) >>),
          Objs(<< ObjReview("o1", "", 4, UNDEF) >>),
          Objs(<< ObjReview("", "Expand Customer Success Team", UNDEF, 3) >>),
          Comps(<< CompReview("Leadership", 4, UNDEF, "", "") >>),
          [Comps(<< CompReview("Leadership", UNDEF, 3, "", "steady") >>)
              EXCEPT !.cm1 = " done "],
          Comps(<< CompReview("Customer", 2, UNDEF, "", "") >>),
          Comps(<< CompReview("Innovation", 5, UNDEF, "new", "") >>),
          Comps(<< CompReview("Teamwork", 5, UNDEF, "", "") >>),
          [NoPayload EXCEPT
             !.cm2 = "hire",
             !.objectiveReviews = << ObjReview("o9", "", 2, UNDEF),
                                     ObjReview("o1", "", 5, UNDEF) >>,
             !.keyResultReviews = << KrReview("k9", "", 7, 1, UNDEF),
                                     KrReview("k1", "", 5, UNDEF, 4) >>,
             !.competencyReviews = << CompReview("Innovation", 5, UNDEF, "", ""),
                                      CompReview("Collaboration", 3, UNDEF, "", "") >>] }

\* The page loaded in a tab whose storage holds the objectives of an
\* earlier visit (line 46), and a record at hand.
InitEngine ==
    /\ env = "live_put"          \* the engine reads no configuration
    /\ clock = StartClock
    /\ phase = "idle"
    /\ okrCache \in EngineOkrs
    /\ cachedReviewForm = NoForm
    /\ lastReviewFetchTime = 0
    /\ updateMutex = <<>>
    /\ ssOkr = IF okrCache = <<>> THEN AbsentList ELSE Stored(okrCache)
    /\ ssReview = AbsentForm
    /\ evt = 0
    /\ isCallActive = FALSE
    /\ isSpeaking = FALSE
    /\ isToolExecuting = FALSE
    /\ silenceTimer = FALSE
    /\ silenceStage = 0
    /\ sentStage = 0
    /\ globalReviewIdRef = ""
    /\ stopTimer = 0
    /\ toolCallList = [b \in Batches |-> <<>>]
    /\ loop = [b \in Batches |-> [pc |-> "none", i |-> 0]]
    /\ cur = 0
    /\ task = [t \in TaskIds |-> NoTask]
    /\ microQ = <<>>
    /\ toolOutput = [c \in CallIds |-> <<>>]
    /\ toast = [c \in CallIds |-> <<>>]
    /\ mockForm = MOCK_REVIEW_FORM
    /\ mockOkrs = MOCK_OKRS
    /\ submitted = <<>>
    /\ started = <<>>
    /\ participantNamesRef = DefaultNames
    /\ speakerMapRef = NoSpeakers
    /\ assignedRolesRef = <<>>
    /\ currentSpeaker = "Participant"
    /\ newMessage = NoMessage
    /\ record \in EngineRecords
    /\ applied = <<>>
    /\ passed = record
    /\ returned = record

\* One call applyUpdateToReviewObject(returned, d), on the result of the
\* call before it (on the record given, for the first).
Reconcile(d) ==
    /\ Len(applied) < MaxApply
    /\ applied' = Append(applied, d)
    /\ returned' = applyUpdateToReviewObject(returned, d, okrCache)
    /\ passed' = InputAfter(returned, d, okrCache)
    /\ SameNames /\ SameSpeakers
    /\ UNCHANGED <<env, clock, phase, okrCache, cachedReviewForm, lastReviewFetchTime,
                   updateMutex, ssOkr, ssReview, evt, isCallActive, isSpeaking,
                   isToolExecuting, silenceTimer, silenceStage, sentStage,
                   globalReviewIdRef, stopTimer, toolCallList, loop, cur, task, microQ,
                   toolOutput, toast, mockForm, mockOkrs, submitted, started, record>>

NextEngine == \E d \in EnginePayloads : Reconcile(d)

SpecEngine == InitEngine /\ [][NextEngine]_vars

\* C14: a call of the engine leaves the object it was given as it was.
C14_InputUnchanged ==
    [][applied' # applied => passed' = returned]_vars

\* ------------------------------------------------------------------------
\* Properties of the reconciliation engine
\* ------------------------------------------------------------------------
\* A payload that only sets the actual value of key results, each by id.
SetsActuals(d) ==
    /\ Len(d.keyResultReviews) > 0
    /\ d = [NoPayload EXCEPT !.keyResultReviews = d.keyResultReviews]
    /\ \A i \in 1..Len(d.keyResultReviews) :
          d.keyResultReviews[i].id # "" /\ d.keyResultReviews[i].actual # UNDEF
KrIds(d) == { d.keyResultReviews[i].id : i \in 1..Len(d.keyResultReviews) }
Progress(r) == [i \in 1..Len(r.goals) |-> r.goals[i].progressStatus]

\* p = round(sum over the key results of min(100, actual/target*100) / n),
\* with 0 for a target that is not positive; halves round up.
IsRoundedMean(p, children) ==
    LET n == Len(children)
        D == ProdSeq([i \in 1..n |-> IF children[i].target > 0 THEN children[i].target ELSE 1])
        N == SumSeq([i \in 1..n |->
                 IF children[i].target > 0
                 THEN Min(100 * D, (100 * children[i].actual * D) \div children[i].target)
                 ELSE 0])
    IN  (2 * p - 1) * D * n <= 2 * N /\ 2 * N < (2 * p + 1) * D * n

\* C15 (first part): after a call, the progress of every objective with
\* key results is the rounded mean of their capped achievements.
ProgressIsMean ==
    Len(applied) > 0 =>
        \A i \in 1..Len(returned.goals) :
            Len(returned.goals[i].children) > 0
                => IsRoundedMean(returned.goals[i].progressStatus, returned.goals[i].children)

\* C15 (second part): two calls that set the actual values of different
\* key results give the same progress in either order.
ProgressOrderFree ==
    (/\ Len(applied) = 2 /\ SetsActuals(applied[1]) /\ SetsActuals(applied[2])
     /\ KrIds(applied[1]) \cap KrIds(applied[2]) = {})
        => Progress(returned)
              = Progress(applyUpdateToReviewObject(
                    applyUpdateToReviewObject(record, applied[2], okrCache),
                    applied[1], okrCache))

\* C15 (third part): one key result with target 10 whose actual value is
\* set to 0, 5 and 10 in turn gives the progress 0, 50 and 100.
ProgressScenario ==
    LET Set(a) == [NoPayload EXCEPT !.keyResultReviews = << KrReview("k1", "", a, UNDEF, UNDEF) >>]
        single == /\ Len(returned.goals) > 0
                  /\ Len(returned.goals[1].children) = 1
                  /\ returned.goals[1].children[1]._id = "k1"
                  /\ returned.goals[1].children[1].target = 10
    IN  single =>
          /\ applied = << Set(0) >> => returned.goals[1].progressStatus = 0
          /\ applied = << Set(0), Set(5) >> => returned.goals[1].progressStatus = 50
          /\ applied = << Set(0), Set(5), Set(10) >> => returned.goals[1].progressStatus = 100

\* C15: after every reconciliation the progress of each objective is the
\* rounded mean of min(100, actual/target*100) over its key results (0 for
\* a target that is not positive), whatever the order in which key-result
\* updates were applied; target 10 with actual 0, 5, 10 gives 0, 50, 100.
C15_ProgressStatus == ProgressIsMean /\ ProgressOrderFree /\ ProgressScenario

ScenarioReached ==
    /\ Len(applied) = 3 /\ Len(returned.goals) > 0
    /\ Len(returned.goals[1].children) = 1
    /\ returned.goals[1].children[1].target = 10
    /\ returned.goals[1].progressStatus = 100
    /\ applied[2].keyResultReviews # <<>> /\ applied[2].keyResultReviews[1].actual = 5

\* The weighted sum of the progress of the goals, in hundredths.
Weighted(goals) == SumSeq([i \in 1..Len(goals) |-> goals[i].progressStatus * goals[i].weight])

\* C16: after every reconciliation totalAchievement is the sum over the
\* objectives of progressStatus*weight/100 capped at 100; it is never above
\* 100, it does not decrease when the progress or the weight of one
\* objective is raised, and weights 50/50 with progress 80/60 give 70.
C16_TotalAchievement ==
    Len(applied) > 0 =>
        /\ returned.totalAchievement = Min(100 * 100, Weighted(returned.goals))
        /\ returned.totalAchievement <= 100 * 100
        /\ \A i \in 1..Len(returned.goals) : \A up \in {1, 100} :
              /\ RecalculateStats([returned EXCEPT !.goals[i].progressStatus = @ + up])
                    .totalAchievement >= returned.totalAchievement
              /\ RecalculateStats([returned EXCEPT !.goals[i].weight = @ + up])
                    .totalAchievement >= returned.totalAchievement
        /\ (/\ Len(returned.goals) = 2
            /\ returned.goals[1].weight = 50 /\ returned.goals[1].progressStatus = 80
            /\ returned.goals[2].weight = 50 /\ returned.goals[2].progressStatus = 60)
              => returned.totalAchievement = 70 * 100

\* A record whose weighted sum is above 100 has been reconciled.
C16_Witness ==
    /\ Len(applied) > 0
    /\ Weighted(returned.goals) > 100 * 100
    /\ returned.totalAchievement = 100 * 100

\* The ratings of one role on the objectives, the key results and the
\* competencies of a record: the sum of those greater than 0 and their number.
RatingsOf(r, role) ==
    LET val(x) == IF role = "employee" THEN x.employeeRating ELSE x.managerRating
        goalVals == [i \in 1..Len(r.goals) |-> val(r.goals[i])]
        krVals == FlatSeq([i \in 1..Len(r.goals) |->
                     [j \in 1..Len(r.goals[i].children) |-> val(r.goals[i].children[j])]])
        compVals == [i \in 1..Len(r.competencies) |->
                       IF r.competencies[i].type = role THEN r.competencies[i].Feedback ELSE 0]
        all == goalVals \o krVals \o compVals
    IN  [sum |-> SumSeq([i \in 1..Len(all) |-> IF all[i] > 0 THEN all[i] ELSE 0]),
         n |-> Cardinality({ i \in 1..Len(all) : all[i] > 0 })]

\* v is num/den rounded to the nearest integer, halves up; 0 when den = 0.
IsRounded(v, num, den) ==
    IF den = 0 THEN v = 0
    ELSE (2 * v - 1) * den <= 2 * num /\ 2 * num < (2 * v + 1) * den

\* C17 (as the code has it): after every reconciliation the two averages
\* are the means of the ratings of the role that are greater than 0, over
\* objectives, key results and competencies, rounded to two decimals (0
\* when there is none), and overallRating is 0.4 times the employee mean
\* plus 0.6 times the manager mean, rounded to two decimals; ratings [4,5]
\* and [3] give 4.5, 3 and 3.6.  The values are kept in hundredths.
C17_AveragesRounded ==
    Len(applied) > 0 =>
        LET e == RatingsOf(returned, "employee")
            m == RatingsOf(returned, "manager")
            ne == IF e.n = 0 THEN 1 ELSE e.n
            nm == IF m.n = 0 THEN 1 ELSE m.n
        IN  /\ IsRounded(returned.employeesRating, 100 * e.sum, e.n)
            /\ IsRounded(returned.managersRating, 100 * m.sum, m.n)
            /\ IsRounded(returned.overallRating, 40 * e.sum * nm + 60 * m.sum * ne, ne * nm)
            /\ (e = [sum |-> 9, n |-> 2] /\ m = [sum |-> 3, n |-> 1])
                  => /\ returned.employeesRating = 450
                     /\ returned.managersRating = 300
                     /\ returned.overallRating = 360

\* Three employee ratings with a mean of 4.33... have been reconciled.
C17_Witness ==
    /\ Len(applied) > 0
    /\ RatingsOf(returned, "employee") = [sum |-> 13, n |-> 3]
    /\ RatingsOf(returned, "manager").n > 0
    /\ returned.employeesRating = 433

\* C17 (as stated): the averages are the means themselves, and
\* overallRating is 0.4 times the employee average plus 0.6 times the
\* manager average.
C17_AveragesExact ==
    Len(applied) > 0 =>
        LET e == RatingsOf(returned, "employee")
            m == RatingsOf(returned, "manager")
        IN  /\ returned.employeesRating * e.n = 100 * e.sum
            /\ returned.managersRating * m.n = 100 * m.sum
            /\ 10 * returned.overallRating
                  = 4 * returned.employeesRating + 6 * returned.managersRating

\* The rating of one role an update carries (UNDEF when it carries none),
\* and the rating of one role on a goal or a key result.
Carried(u, role) == IF role = "employee" THEN u.employeeRating ELSE u.managerRating
RatingOn(x, role) == IF role = "employee" THEN x.employeeRating ELSE x.managerRating

\* The rating a slot has after a call: the one carried by the first (for a
\* competency, the last) of the updates us that address it, else old.
AfterUpdates(old, us, hits, role, lastWins) ==
    LET with == { i \in hits : Carried(us[i], role) # UNDEF }
        pick == CHOOSE i \in with : \A j \in with : IF lastWins THEN j <= i ELSE i <= j
    IN  IF lastWins
        THEN (IF with = {} THEN old ELSE Carried(us[pick], role))
        ELSE (IF hits = {} THEN old
              ELSE LET first == CHOOSE i \in hits : \A j \in hits : i <= j
                   IN  IF Carried(us[first], role) # UNDEF
                       THEN Carried(us[first], role) ELSE old)

\* The updates of d that address goal g, key result kr, or the competency
\* entry at index k of the entries cs.
ObjectiveHits(g, d) ==
    { i \in 1..Len(d.objectiveReviews) :
        \/ d.objectiveReviews[i].id # "" /\ d.objectiveReviews[i].id = g._id
        \/ /\ d.objectiveReviews[i].objectiveName # ""
           /\ normalizeString(d.objectiveReviews[i].objectiveName) = normalizeString(g.objective) }
KeyResultHits(kr, d) ==
    { i \in 1..Len(d.keyResultReviews) :
        \/ d.keyResultReviews[i].id # "" /\ d.keyResultReviews[i].id = kr._id
        \/ /\ d.keyResultReviews[i].keyResultName # ""
           /\ normalizeString(d.keyResultReviews[i].keyResultName)
                 = normalizeString(kr.keyResultName) }
CompetencyHits(cs, k, d) ==
    { i \in 1..Len(d.competencyReviews) :
        LET uName == normalizeString(d.competencyReviews[i].competencyName)
            same == { j \in 1..Len(cs) : cs[j].type = cs[k].type
                                          /\ matchComp(cs[j].competencyName, uName) }
        IN  uName # "" /\ k \in same /\ \A j \in same : k <= j }

\* Every rating of `after` is the one d carries for its slot, and the one
\* of `before` (0 where before had no such slot) when d carries none.
RatingsMerged(before, d, after) ==
    LET hadGoals == Len(before.goals) > 0
        hadComps == Len(before.competencies) > 0
    IN  /\ hadGoals => Len(after.goals) = Len(before.goals)
        /\ hadComps => Len(after.competencies) = Len(before.competencies)
        /\ \A role \in {"employee", "manager"} :
              /\ \A i \in 1..Len(after.goals) :
                    /\ RatingOn(after.goals[i], role)
                          = AfterUpdates(IF hadGoals THEN RatingOn(before.goals[i], role) ELSE 0,
                                         d.objectiveReviews,
                                         ObjectiveHits(after.goals[i], d), role, FALSE)
                    /\ \A j \in 1..Len(after.goals[i].children) :
                          RatingOn(after.goals[i].children[j], role)
                             = AfterUpdates(IF hadGoals
                                            THEN RatingOn(before.goals[i].children[j], role)
                                            ELSE 0,
                                            d.keyResultReviews,
                                            KeyResultHits(after.goals[i].children[j], d),
                                            role, FALSE)
              /\ \A k \in 1..Len(after.competencies) :
                    after.competencies[k].type = role
                       => after.competencies[k].Feedback
                             = AfterUpdates(IF hadComps THEN before.competencies[k].Feedback ELSE 0,
                                            d.competencyReviews,
                                            CompetencyHits(after.competencies, k, d),
                                            role, TRUE)

\* C18: of two reconciliations in a row that address different items or
\* roles, the second leaves every rating the first has set and every rating
\* that was there, and sets its own once: each call changes the ratings its
\* payload addresses and no other, so the rating lists hold the union.
C18_RatingsUnion ==
    [][applied' # applied => RatingsMerged(returned, applied'[Len(applied')], returned')]_vars

\* A competency rating of the employee, then an objective rating of the
\* manager: both are in the rating lists.
C18_Witness ==
    /\ Len(applied) = 2
    /\ Len(applied[1].competencyReviews) = 1
    /\ applied[1].competencyReviews[1].competencyName = "Leadership"
    /\ applied[1].competencyReviews[1].employeeRating = 4
    /\ Len(applied[2].objectiveReviews) = 1
    /\ applied[2].objectiveReviews[1].managerRating = 3
    /\ record.goals = <<>> /\ okrCache # <<>>
    /\ RatingsOf(returned, "employee") = [sum |-> 4, n |-> 1]
    /\ RatingsOf(returned, "manager") = [sum |-> 3, n |-> 1]

\* The competency updates of d all carry a name outside the roster.
OutsideRoster(d) ==
    /\ Len(d.competencyReviews) > 0
    /\ \A i \in 1..Len(d.competencyReviews) : \A k \in 1..Len(competencyOrder) :
          normalizeString(d.competencyReviews[i].competencyName)
             # normalizeString(competencyOrder[k])

\* C19: a competency update whose name is not one of the five roster names
\* changes the rating and the comment of no competency entry.
C19_UnknownNameNoOp ==
    [][(applied' # applied /\ OutsideRoster(applied'[Len(applied')]))
          => returned'.competencies
                = IF Len(returned.competencies) = 0 THEN RosterEntries
                  ELSE returned.competencies]_vars

\* ------------------------------------------------------------------------
\* Properties of the speaker table
\* ------------------------------------------------------------------------
Seen == { s \in SpeakerIds : speakerMapRef[s] # "" }

\* C20: in a call session the first speaker channel seen is labelled with
\* the employee name, the second with the manager name and every later one
\* with "Participant <id>", and a channel that has a label keeps it.
C20_SpeakerLabels ==
    [][\A s \in SpeakerIds :
          /\ (s \in Seen /\ phase' = phase) => speakerMapRef'[s] = speakerMapRef[s]
          /\ (s \notin Seen /\ speakerMapRef'[s] # "")
                => speakerMapRef'[s] =
                      CASE Cardinality(Seen) = 0 -> participantNamesRef.employee
                        [] Cardinality(Seen) = 1 -> participantNamesRef.manager
                        [] OTHER -> ParticipantLabel(s)]_vars

\* C21: the channel-to-label table and the list of assigned names are
\* empty after call start and after call end: once the session has ended
\* none of its assignments is left.
C21_SpeakersReset ==
    [][(phase' # phase /\ phase' \in {"active", "ended"})
          => speakerMapRef' = NoSpeakers /\ assignedRolesRef' = <<>>]_vars

\* ------------------------------------------------------------------------
\* Properties of the silence monitor
\* ------------------------------------------------------------------------
Quiet == isCallActive /\ ~isSpeaking /\ ~isToolExecuting

\* C22: in an active call with nobody speaking and no tool running, the
\* silence monitor sends the messages of the stages 1, 2 and 3 in this
\* order, each when its timer fires and each once, and after stage 3 no
\* timer is pending until the monitor is started again.
C22_SilenceEscalation ==
    [][/\ sentStage' > 0
          => /\ Quiet /\ silenceTimer
             /\ sentStage' = silenceStage + 1
             /\ silenceStage' = sentStage'
       /\ silenceStage' # silenceStage
          => \/ silenceStage' = 0
             \/ sentStage' = silenceStage'
       /\ silenceStage' <= TerminalStage
       /\ silenceStage' = TerminalStage => ~silenceTimer'
       /\ silenceTimer' => Quiet']_vars

\* The third stage has just been sent.
C22_Witness ==
    /\ silenceStage = TerminalStage /\ sentStage = TerminalStage
    /\ ~silenceTimer /\ phase = "active"

\* Some entry of d addresses no goal, key result or competency of r.
HasUnmatched(d, r) ==
    \/ \E i \in 1..Len(d.objectiveReviews) :
          \A g \in 1..Len(r.goals) : i \notin ObjectiveHits(r.goals[g], d)
    \/ \E i \in 1..Len(d.keyResultReviews) :
          \A g \in 1..Len(r.goals) : \A k \in 1..Len(r.goals[g].children) :
             i \notin KeyResultHits(r.goals[g].children[k], d)
    \/ \E i \in 1..Len(d.competencyReviews) :
          \A k \in 1..Len(r.competencies) : i \notin CompetencyHits(r.competencies, k, d)

\* C23: an entry of a payload that matches no item of the record is
\* dropped: no item is added for it, and every other entry and every
\* free-text field of the payload is applied.
C23_UnmatchedDropped ==
    [][(applied' # applied /\ HasUnmatched(applied'[Len(applied')], returned'))
          => LET d == applied'[Len(applied')]
             IN  /\ RatingsMerged(returned, d, returned')
                 /\ Len(returned'.goals)
                       = IF Len(returned.goals) > 0 THEN Len(returned.goals) ELSE Len(okrCache)
                 /\ Len(returned'.competencies)
                       = IF Len(returned.competencies) > 0 THEN Len(returned.competencies)
                         ELSE 2 * Len(competencyOrder)
                 /\ \A g \in 1..Len(returned'.goals) :
                    \A k \in 1..Len(returned'.goals[g].children) :
                       LET kr == returned'.goals[g].children[k]
                           hits == KeyResultHits(kr, d)
                       IN  (hits # {}
                            /\ d.keyResultReviews[CHOOSE i \in hits : \A j \in hits : i <= j]
                                  .actual # UNDEF)
                              => kr.actual
                                    = d.keyResultReviews[CHOOSE i \in hits : \A j \in hits : i <= j]
                                         .actual
                 /\ d.cm2 # "" => /\ returned'.cm2 = d.cm2
                                  /\ returned'.overallComments.cm2 = d.cm2
                                  /\ returned'.nextQuarterPlan = d.cm2]_vars

\* The payload with unmatched entries has been applied to a record that
\* has the objective o1, the key result k1 and the roster.
C23_Witness ==
    /\ Len(applied) > 0
    /\ HasUnmatched(applied[Len(applied)], returned)
    /\ returned.cm2 = "hire"
    /\ Len(returned.goals) > 0
    /\ returned.goals[1].employeeRating = 5
    /\ returned.goals[1].children[1].actual = 5
    /\ returned.goals[1].children[1].managerRating = 4
    /\ \E k \in 1..Len(returned.competencies) :
          /\ returned.competencies[k].competencyName = "Collaboration"
          /\ returned.competencies[k].Feedback = 3

\* C24: a transcript without a speaker id is labelled with the label of
\* the last attributed utterance of the session, and leaves the table of
\* channel labels and the assigned names as they are.
C24_NoIdKeepsLabel ==
    [][(newMessage' # newMessage /\ newMessage'.speakerId = UNDEF)
          => /\ newMessage'.speaker = currentSpeaker
             /\ speakerMapRef' = speakerMapRef
             /\ assignedRolesRef' = assignedRolesRef]_vars

\* The part of C24 about the table: a transcript without a speaker id
\* assigns nothing.
C24_NoIdAssignsNothing ==
    [][(newMessage' # newMessage /\ newMessage'.speakerId = UNDEF)
          => /\ speakerMapRef' = speakerMapRef
             /\ assignedRolesRef' = assignedRolesRef
             /\ currentSpeaker' = currentSpeaker]_vars

\* The actual of key result id in the first record of form f that has it,
\* UNDEF when no record has it.
ActualIn(f, id) ==
    LET hits == { <<r, g, k>> \in (1..Len(f.reviews)) \X (1..2) \X (1..3) :
                     /\ g <= Len(f.reviews[r].goals)
                     /\ k <= Len(f.reviews[r].goals[g].children)
                     /\ f.reviews[r].goals[g].children[k]._id = id }
    IN  IF f.shape = "null" \/ hits = {} THEN UNDEF
        ELSE LET h == CHOOSE x \in hits : TRUE
             IN  f.reviews[h[1]].goals[h[2]].children[h[3]].actual

\* The actual of key result id in the source objectives, UNDEF when absent.
SourceActual(okrs, id) ==
    LET at == FindKeyResult(okrs, id)
    IN  IF at[1] = 0 THEN UNDEF ELSE okrs[at[1]].children[at[2]].actual

\* C25: while the cached review record holds the actual that a call of
\* updateKeyResult wrote into it, and the source objectives still hold the
\* older one, no step puts the older one back into the record.
C25_OptimisticActualKept ==
    [][\A c \in CallIds :
          (/\ task[c].kind = "ukr"
           /\ ActualIn(cachedReviewForm, CallOf(c).args.id) = CallOf(c).args.value
           /\ SourceActual(okrCache, CallOf(c).args.id) # CallOf(c).args.value
           /\ ActualIn(cachedReviewForm', CallOf(c).args.id) # UNDEF)
          => ActualIn(cachedReviewForm', CallOf(c).args.id) = CallOf(c).args.value]_vars

\* Tool-calls messages of submissions: blocking and background ones, one
\* with a null payload, a key-result update between them, and one that
\* starts with arguments that are not JSON.
QueueLists ==
    { Take(s, MaxLen) : s \in { <<RateComp, SubmitSelf, UpdateKr>>,
                                <<SubmitSelf, RateComp, NullSubmit>>,
                                <<NullSubmit, SubmitSelf, RateComp>>,
                                <<UpdateKr, RateComp, SubmitSelf>>,
                                <<BadJson, SubmitSelf, RateComp>>,
                                <<RateComp, RateComp, SubmitSelf>> } }

QueueLoopStep ==
    LoopParseError(1) \/ LoopAck(1) \/ LoopSpawn(1) \/ LoopSubmit(1) \/ LoopFinish(1)

\* One tool-calls message of submissions during a call.
NextQueue ==
    \/ StartCall \/ RunStartForm \/ RunStartDone \/ CallStart \/ CallEnd
    \/ \E list \in QueueLists : ToolCallsMessage(1, list)
    \/ QueueLoopStep
    \/ TaskStep

\* The event loop runs every continuation that is ready and every dispatch
\* loop that can go on, and every network request in flight is answered.
SpecQueue == Init /\ [][NextQueue]_vars /\ WF_vars(QueueLoopStep) /\ WF_vars(TaskStep)

\* C26: a submission that is queued or whose section runs is settled
\* later with the result true or false: no section stays in the queue
\* for ever and no call stays without a result.
C26_QueueNeverWedges ==
    \A c \in 1..MaxLen :
        (task[c].pc \in {"queued"} \cup SectionPcs)
           ~> (task[c].pc = "settled" /\ task[c].result \in {"true", "false"})

\* The first submission of a message has failed and the second one, queued
\* behind it, has run and has its result.
C26_Witness ==
    /\ Len(started) >= 2 /\ started[1] = 1 /\ started[2] = 2
    /\ task[1].result = "false"
    /\ task[2].pc \in {"settled", "done"}
    /\ task[2].result \in {"true", "false"}

\* C27: after call end has cleared the session cache, the operations the
\* call started leave the cached review form and its copy in the storage
\* of the tab empty.
C27_CacheStaysCleared ==
    phase = "ended" => cachedReviewForm = NoForm /\ ssReview = AbsentForm

\* C28: the record the optimistic update of a submission writes is the
\* record its queued section resolves as the target.
C28_SameTarget ==
    \A c \in CallIds :
        (task[c].optimistic # "" /\ task[c].target # "")
           => task[c].target = task[c].optimistic

\* C29: every tool call of a message gets a tool output, and never more
\* than one.
C29_ExactlyOneOutput ==
    /\ \A c \in 1..MaxLen : [](Len(toolOutput[c]) <= 1)
    /\ \A c \in 1..MaxLen : Arrived(c) ~> (Len(toolOutput[c]) = 1)

\* The part of C29 that is a safety property: no tool call gets two tool
\* outputs.
C29_AtMostOneOutput == \A c \in CallIds : Len(toolOutput[c]) <= 1

\* C30: the update_okr_rating calls of a message enter the submission
\* queue in the order of the message.
C30_QueueOrder ==
    \A i, j \in 1..Len(submitted) :
        (/\ i < j
         /\ submitted[i] \in CallIds /\ submitted[j] \in CallIds
         /\ BatchOf(submitted[i]) = BatchOf(submitted[j])
         /\ task[submitted[i]].kind = "uor" /\ task[submitted[j]].kind = "uor")
           => submitted[i] < submitted[j]
====
